---- MODULE Spec2Model ----
(***************************************************************************)
(* NoiseBuster: the windowed sampler and rising-edge detector, the         *)
(* telemetry sink with its retry queue (src/src/noisebuster.py), and the   *)
(* segment buffer and single-flight event recorder                         *)
(* (src/src/video_recording.py).                                           *)
(*                                                                         *)
(* Time is a discrete clock of whole seconds.  Noise levels are integers   *)
(* in tenths of a decibel (round(dB, 1) * 10).  A segment file of the      *)
(* buffer directory is identified by its modification time: the recorder   *)
(* closes one segment per second.                                          *)
(***************************************************************************)
EXTENDS Integers, Sequences, FiniteSets, TLC

\* ------------------------------------------------------------------ bounds
MaxTime == 4            \* the clock stops advancing here
MaxJobs == 2            \* worker threads existing at once
NCallers == 2           \* threads calling trigger_event_recording directly
MaxQueue == 2           \* failed writes the sampler may add to the queue
MaxProcs == 2           \* recorder processes existing at once
MaxTicks == 3           \* retry ticks a specification counts
MaxFiles == 3           \* entries of the buffer directory in a listing

\* ------------------------------------------------------- program constants
GRACE == 2              \* "2s grace period" of the selection window
MIN_KEEP == 10          \* max(10, ...) of the retention

\* A recorder that runs at time 0 has run for just over the minimum retention,
\* so that the buffer directory holds segments of every age up to it.
History == MIN_KEEP + 1

SAMPLER == 0                       \* the sampling thread, as a caller
ExtCallers == 1..NCallers          \* other threads calling the module
Callers == {SAMPLER} \cup ExtCallers
JobIds == 1..MaxJobs

\* VIDEO_CONFIG values the model is run with: pre_event_seconds,
\* post_event_seconds, buffer_seconds.
VideoTimings ==
    { [pre |-> 1, post |-> 1, buffer |-> 1] }

VARIABLES
    now,            \* time.time() / datetime.now(), in seconds
    video_config,   \* config.video: enabled, embed_decibel_reading, timings, ints_ok
    ffmpeg,         \* is_tool("ffmpeg")
    _proc,          \* the supervisor's process handle: 0 is None, else a pid
    alive,          \* pids of recorder processes that are running
    segments,       \* modification times of the seg_* files in _buffer_dir
    list_file,      \* concat_list.txt: <<>> when absent, else <<the chosen list>>
    _record_lock,   \* threading.Lock: TRUE when held
    tpc,            \* per caller: position in trigger_event_recording
    tret,           \* per caller: value returned by the last call
    wpc,            \* per job: position of its _worker
    event_ts,       \* per job: event_ts
    segs,           \* per job: the worker's segs, the result of _list_segments()
    chosen,         \* per job: the worker's chosen list (as a set of mtimes)
    final,          \* per job: final_path: "none", "empty", "ok", "processed"
    \* history (not program state)
    releases,       \* per slot: times its last worker released _record_lock
    outcome,        \* per job: exit path by which its worker left the try block
    spliced,        \* per job: the input of each ffmpeg invocation, in order
    cleanups        \* per slot: _cleanup_old_segments calls of its last worker

VARIABLES
    mpc,            \* position of main(); "exited" once the process has ended
    test_duration,  \* args.test_duration
    start_time,     \* main's start_time; from the finally clause, when join began
    stop_event,     \* threading.Event: TRUE when set
    scheduled,      \* schedule holds the retry_failed_writes job
    rpicam,         \* is_tool("rpicam-vid")
    influxdb,       \* config.influxdb["enabled"], InfluxDBClient, write_api as truth values
    failed_writes_queue,    \* Queue of (bucket, data)
    retry_item,     \* the (bucket, data) retry_failed_writes has taken: <<>> when none
    spc,            \* position of update_noise_level in the sampling thread
    window_start_time,
    current_peak_dB,
    last_above_threshold,
    current_time,   \* current_time and timestamp of a closing window, else 0
    \* history (not program state)
    prev_above,     \* the window closed last had its peak at or above the minimum level
    wlog,           \* the write of the sampler's last step, and how it went: "none",
                    \* "realtime_ok", "realtime_failed", "threshold_ok", "threshold_failed"
    hist            \* what a specification observes of the calls it studies: the
                    \* retry ticks, the readings of a window, the supervisor's calls,
                    \* a cleanup; [mode |-> "off"] where nothing is observed

mainvars == <<mpc, test_duration, start_time, stop_event, scheduled>>
sinkvars == <<influxdb, failed_writes_queue, retry_item>>
samvars == <<spc, window_start_time, current_peak_dB, last_above_threshold, current_time>>
histvars == <<prev_above, wlog, hist>>
progvars == <<mainvars, sinkvars, samvars, histvars, rpicam>>

envvars == <<video_config, ffmpeg, _proc, alive>>
callvars == <<tpc, tret>>
jobvars == <<wpc, event_ts, segs, chosen, final, releases, outcome, spliced, cleanups>>
recvars == <<now, envvars, segments, list_file, _record_lock, callvars, jobvars>>

vars == <<recvars, progvars>>

\* The process runs: its daemon threads end with it.
Running == mpc # "exited"

\* ---------------------------------------------------------------- history
NoHistory == [mode |-> "off"]

\* The retry ticks: ticks counts the ticks that found the queue non-empty,
\* fails the retry writes that raised, tick_fails those of the tick under
\* way or last run; behind holds the items that stood behind the item that
\* failed last and have not been taken since, failing that item until it is
\* written, fail_tick the tick of that failure; at_start is the queue as the
\* tick under way or last run found it, tried the items that tick has taken.
RetryHistory ==
    [mode |-> "retry", ticks |-> 0, fails |-> 0, tick_fails |-> 0,
     behind |-> <<>>, failing |-> <<>>, fail_tick |-> 0,
     at_start |-> <<>>, tried |-> 0]

TickStarted(h, q) ==
    IF h.mode = "retry"
    THEN [h EXCEPT !.ticks = IF q = <<>> THEN @ ELSE @ + 1, !.tick_fails = 0,
                   !.at_start = q, !.tried = 0]
    ELSE h

ItemTaken(h) ==
    IF h.mode = "retry"
    THEN [h EXCEPT !.behind = IF @ # <<>> THEN Tail(@) ELSE @, !.tried = @ + 1]
    ELSE h

WriteRetried(h, item, q, ok) ==
    IF h.mode # "retry" THEN h
    ELSE IF ok
         THEN [h EXCEPT !.failing = IF @ = item THEN <<>> ELSE @]
         ELSE [h EXCEPT !.fails = @ + 1, !.tick_fails = @ + 1,
                        !.behind = q, !.failing = item, !.fail_tick = h.ticks]

\* The readings of the window under way: readings holds the valid ones,
\* last tells how the last read went ("none" before the first).
SamplerHistory == [mode |-> "sampler", readings |-> {}, last |-> "none"]

WindowOpened(h) ==
    IF h.mode = "sampler" THEN [h EXCEPT !.readings = {}, !.last = "none"] ELSE h

\* A run of main: issued tells whether the sampling thread has called
\* trigger_video_recording, low whether a reading was below `floor` or raised,
\* left how main left its loop.
RunHistory == [mode |-> "run", issued |-> FALSE, low |-> FALSE, left |-> "none"]

\* The shutdown of main: late_events counts the noise events the sampling
\* thread has found, late_jobs the jobs trigger_event_recording has accepted
\* from it, with the stop signal set.
ShutdownHistory == [mode |-> "shutdown", late_events |-> 0, late_jobs |-> 0]

EventFound(h, late) ==
    IF h.mode = "shutdown" /\ late THEN [h EXCEPT !.late_events = @ + 1] ELSE h

JobAccepted(h, c, late) ==
    IF h.mode = "shutdown" /\ c = 0 /\ late THEN [h EXCEPT !.late_jobs = @ + 1] ELSE h

\* main leaves its loop, by the test duration or by KeyboardInterrupt.
LoopLeft(h, cause) ==
    IF h.mode = "run" THEN [h EXCEPT !.left = cause] ELSE h

TriggerCalled(h, c) ==
    IF h.mode = "run" /\ c = 0 THEN [h EXCEPT !.issued = TRUE] ELSE h

ReadingTaken(h, level, floor) ==
    IF h.mode = "sampler"
    THEN [h EXCEPT !.readings = @ \cup {level}, !.last = "valid"]
    ELSE IF h.mode = "run" THEN [h EXCEPT !.low = @ \/ level < floor]
    ELSE h

ReadFailed(h) ==
    IF h.mode = "sampler" THEN [h EXCEPT !.last = "error"]
    ELSE IF h.mode = "run" THEN [h EXCEPT !.low = TRUE]
    ELSE h

\* A call of _cleanup_old_segments: n tells one call from the next, failed
\* holds the segments whose os.remove raised in the last call.
CleanupHistory == [mode |-> "cleanup", n |-> 0, failed |-> {}]

CleanupCalled(h, failed) == [mode |-> "cleanup", n |-> 1 - h.n, failed |-> failed]

\* A call of _list_segments: whether _buffer_dir was a directory, what
\* os.listdir gave, the entries whose getmtime raised FileNotFoundError, and
\* the list returned.
ListingHistory ==
    [mode |-> "listing", called |-> FALSE, isdir |-> FALSE, listing |-> <<>>,
     gone |-> {}, result |-> <<>>]

Listed(h, isdir, listing, gone, result) ==
    [mode |-> "listing", called |-> TRUE, isdir |-> isdir, listing |-> listing,
     gone |-> gone, result |-> result]

\* A call of check_configuration: config.influxdb before and after it, and
\* whether it returned or raised.
ConfigHistory ==
    [mode |-> "config", called |-> FALSE, before |-> <<>>, after |-> <<>>,
     outcome |-> "none"]

Checked(h, before, after) ==
    [mode |-> "config", called |-> TRUE, before |-> before, after |-> after,
     outcome |-> "returned"]

\* The calls of start_video_buffer and stop_video_buffer: n tells one call
\* from the next, op, cause and ret describe the last call and stopped tells
\* whether stop_video_buffer has been called at all.
SupervisorHistory ==
    [mode |-> "supervisor", n |-> 0, op |-> "none", cause |-> "none",
     ret |-> "none", stopped |-> FALSE]

Called(h, op, cause, ret) ==
    [mode |-> "supervisor", n |-> 1 - h.n, op |-> op, cause |-> cause,
     ret |-> ret, stopped |-> h.stopped \/ op = "stop"]

\* ---------------------------------------------------------------- helpers
\* A peak that follows the last reading.
Latest(a, b) == b

Max(a, b) == IF a >= b THEN a ELSE b

\* The elements of a finite set of integers in ascending order
\* (items.sort(key=lambda x: x[1]); chosen.sort(key=getmtime)).
SortedSeq(S) ==
    [ i \in 1..Cardinality(S) |->
        CHOOSE x \in S : Cardinality({ y \in S : y < x }) = i - 1 ]

Range(s) == { s[i] : i \in 1..Len(s) }

\* _list_segments(): the (path, mtime) pairs of _buffer_dir sorted by mtime.
_list_segments == SortedSeq(segments)

\* A window that leaves out a segment on its lower bound.
InWindowOpenBelow(mt, ets) ==
    /\ ets - video_config.pre - GRACE < mt
    /\ mt <= ets + video_config.post + GRACE

\* start_t <= mt <= end_t of _worker.
InWindow(mt, ets) ==
    /\ ets - video_config.pre - GRACE <= mt
    /\ mt <= ets + video_config.post + GRACE

\* chosen = [p for p, mt in segs if start_t <= mt <= end_t]
Chosen(listing, ets) ==
    { listing[i] : i \in { k \in 1..Len(listing) : InWindow(listing[k], ets) } }

\* keep_seconds = max(10, int(buffer_seconds) * 2)
KeepSeconds(buffer_seconds) == Max(MIN_KEEP, buffer_seconds * 2)

\* the segments _cleanup_old_segments tries to remove
Expired(buffer_seconds) ==
    { mt \in Range(_list_segments) : now - mt > KeepSeconds(buffer_seconds) }


\* --------------------------------------------- trigger_event_recording
\* An acquire that never sees the lock held.
AcquireAlways == TRUE

\* _record_lock.acquire(blocking=False): TRUE when the lock could be taken.
AcquireNonBlocking == ~_record_lock

\* The branch trigger_event_recording takes on entry.
TriggerBranch ==
    IF ~video_config.enabled THEN "disabled"
    ELSE IF ~ffmpeg THEN "no_ffmpeg"
    ELSE IF ~AcquireNonBlocking THEN "busy"
    ELSE "acquired"

\* An entry that takes the lock before it tests for ffmpeg.
LockBeforeToolCheck(branch) == _record_lock \/ branch \in {"acquired", "no_ffmpeg"}

\* The lock after the entry checks of trigger_event_recording.
LockAfterEntry(branch) == _record_lock \/ branch = "acquired"

\* The job slots that hold no live worker.
FreeSlots == { j \in JobIds : wpc[j] = "none" }

\* A start that fills every free slot with a worker.
EveryFreeSlot == { j \in JobIds : wpc[j] = "none" }

\* The threads that threading.Thread(target=_worker, daemon=True).start()
\* starts: one, in the lowest free slot.
NewWorkers == { j \in FreeSlots : \A k \in FreeSlots : j <= k }

\* A caller is about to call: the sampling thread at its trigger statement,
\* another thread whenever it is not inside a call.
CallerReady(c) ==
    IF c = SAMPLER THEN spc = "trigger" /\ tpc[c] = "idle"
    ELSE tpc[c] \in {"idle", "returned", "raised"}

\* Entry of trigger_event_recording (lines 130-140): the three early returns,
\* or the lock taken.
trigger_entry(c) ==
    /\ Running
    /\ CallerReady(c)
    /\ LET branch == TriggerBranch IN
        /\ _record_lock' = LockAfterEntry(branch)
        /\ IF branch = "acquired"
           THEN /\ FreeSlots # {}
                /\ tpc' = [tpc EXCEPT ![c] = "acquired"]
                /\ tret' = [tret EXCEPT ![c] = FALSE]
           ELSE /\ tpc' = [tpc EXCEPT ![c] = "returned"]
                /\ tret' = [tret EXCEPT ![c] = FALSE]
    /\ hist' = TriggerCalled(hist, c)
    /\ UNCHANGED <<mainvars, sinkvars, samvars, prev_above, wlog, rpicam,
                   now, envvars, segments, list_file, jobvars>>

\* A worker that does not wait before it lists the segments.
StartsAtListing == "list"

\* Where a new worker stands when trigger_event_recording returns:
\* Thread(target=_worker, daemon=True).start() runs nothing of it in the caller.
WorkerStart == "sleep"

\* Lines 142-234 with the lock held: the int() conversions, event_ts, and
\* threading.Thread(target=_worker).start(); returns True.  A conversion that
\* raises leaves the call by exception, before any thread is started.
trigger_spawn(c) ==
    /\ Running
    /\ tpc[c] = "acquired"
    /\ IF ~video_config.ints_ok
       THEN /\ tpc' = [tpc EXCEPT ![c] = "raised"]
            /\ UNCHANGED <<tret, jobvars, hist>>
       ELSE /\ FreeSlots # {}
            /\ hist' = JobAccepted(hist, c, stop_event)
            /\ wpc' = [j \in JobIds |-> IF j \in NewWorkers THEN WorkerStart ELSE wpc[j]]
            /\ event_ts' = [j \in JobIds |-> IF j \in NewWorkers THEN now ELSE event_ts[j]]
            /\ releases' = [j \in JobIds |-> IF j \in NewWorkers THEN 0 ELSE releases[j]]
            /\ cleanups' = [j \in JobIds |-> IF j \in NewWorkers THEN 0 ELSE cleanups[j]]
            /\ UNCHANGED <<segs, chosen, final, outcome, spliced>>
            /\ tpc' = [tpc EXCEPT ![c] = "returned"]
            /\ tret' = [tret EXCEPT ![c] = TRUE]
    /\ UNCHANGED <<mainvars, sinkvars, samvars, prev_above, wlog, rpicam,
                   now, envvars, segments, list_file, _record_lock>>

\* ------------------------------------------------------------- _worker
\* Leaving the try block of _worker on exit path `path`.
Leave(j, path) ==
    /\ wpc' = [wpc EXCEPT ![j] = "finally1"]
    /\ outcome' = [outcome EXCEPT ![j] = path]

\* time.sleep(post_s)
worker_sleep(j) ==
    /\ Running
    /\ wpc[j] = "sleep"
    /\ now >= event_ts[j] + video_config.post
    /\ wpc' = [wpc EXCEPT ![j] = "list"]
    /\ UNCHANGED <<progvars, now, envvars, segments, list_file, _record_lock, callvars,
                   event_ts, segs, chosen, final, releases, outcome, spliced, cleanups>>

\* segs = _list_segments(); chosen = [... if start_t <= mt <= end_t]
worker_list(j) ==
    /\ Running
    /\ wpc[j] = "list"
    /\ segs' = [segs EXCEPT ![j] = _list_segments]
    /\ chosen' = [chosen EXCEPT ![j] = Chosen(_list_segments, event_ts[j])]
    /\ wpc' = [wpc EXCEPT ![j] = "sort"]
    /\ UNCHANGED <<progvars, now, envvars, segments, list_file, _record_lock, callvars,
                   event_ts, final, releases, outcome, spliced, cleanups>>

\* An emptiness test that never returns early.
NeverEmpty(c) == FALSE

\* chosen.sort(key=getmtime), which raises FileNotFoundError for a segment
\* removed since the listing; then `if not chosen: return`.
NotChosen(c) == c = {}

worker_sort(j) ==
    /\ Running
    /\ wpc[j] = "sort"
    /\ IF ~(chosen[j] \subseteq segments) THEN Leave(j, "other")
       ELSE IF NotChosen(chosen[j]) THEN Leave(j, "no_segments")
       ELSE /\ wpc' = [wpc EXCEPT ![j] = "write_list"]
            /\ UNCHANGED outcome
    /\ UNCHANGED <<progvars, now, envvars, segments, list_file, _record_lock, callvars,
                   event_ts, segs, chosen, final, releases, spliced, cleanups>>

\* with open(list_file_path, "w") as f: ... ; an OSError of open or write
\* is caught by no except clause of _worker.
worker_write_list(j) ==
    /\ Running
    /\ wpc[j] = "write_list"
    /\ \/ /\ list_file' = <<SortedSeq(chosen[j])>>
          /\ wpc' = [wpc EXCEPT ![j] = "ffmpeg"]
          /\ UNCHANGED outcome
       \/ /\ Leave(j, "other")
          /\ UNCHANGED list_file
    /\ UNCHANGED <<progvars, now, envvars, segments, _record_lock, callvars,
                   event_ts, segs, chosen, final, releases, spliced, cleanups>>

\* subprocess.run(ffmpeg_cmd, check=True, ...) and os.remove(list_file_path).
\* ffmpeg exits 0 with a non-empty output, exits 0 with an empty or missing
\* output, or exits non-zero (CalledProcessError: the remove is skipped).
worker_ffmpeg(j) ==
    /\ Running
    /\ wpc[j] = "ffmpeg"
    /\ spliced' = [spliced EXCEPT ![j] = Append(@, IF list_file = <<>> THEN <<>> ELSE list_file[1])]
    /\ \/ \E res \in {"ok", "empty"} :
            /\ final' = [final EXCEPT ![j] = res]
            /\ list_file' = <<>>
            /\ wpc' = [wpc EXCEPT ![j] = "verify"]
            /\ UNCHANGED outcome
       \/ /\ Leave(j, "splice_failed")
          /\ UNCHANGED <<final, list_file>>
    /\ UNCHANGED <<progvars, now, envvars, segments, _record_lock, callvars,
                   event_ts, segs, chosen, releases, cleanups>>

\* if os.path.exists(final_path) and os.path.getsize(final_path) > 0
Verified(j) == final[j] = "ok"

worker_verify(j) ==
    /\ Running
    /\ wpc[j] = "verify"
    /\ IF Verified(j)
       THEN IF video_config.embed
            THEN /\ wpc' = [wpc EXCEPT ![j] = "embed"]
                 /\ UNCHANGED outcome
            ELSE Leave(j, "success")
       ELSE Leave(j, "splice_failed")
    /\ UNCHANGED <<progvars, now, envvars, segments, list_file, _record_lock, callvars,
                   event_ts, segs, chosen, final, releases, spliced, cleanups>>

\* final_path after the post-processing block (lines 201-211), by what the
\* overlay run did: subprocess.run([...]) is not checked, os.remove(final_path)
\* is unconditional, and os.rename(processed_path, final_path) follows.
\*   "ok"        the script wrote processed_path
\*   "fail"      the script exited 1 and wrote no processed_path
\*   "partial"   the script exited 1 and left an incomplete processed_path
\*   "no_python" subprocess.run raised FileNotFoundError: nothing was removed
FinalAfterEmbed(cur, res) ==
    CASE res = "ok" -> "processed"
      [] res = "fail" -> "none"
      [] res = "partial" -> "partial"
      [] OTHER -> cur

EmbedResults == {"ok", "fail", "partial", "no_python"}

\* The embed_decibel_reading block; a missing processed_path makes os.rename
\* raise FileNotFoundError, which the first except clause catches.
worker_embed(j) ==
    /\ Running
    /\ wpc[j] = "embed"
    /\ \E res \in EmbedResults :
        /\ final' = [final EXCEPT ![j] = FinalAfterEmbed(@, res)]
        /\ Leave(j, IF res \in {"ok", "partial"} THEN "success" ELSE "post_failed")
    /\ UNCHANGED <<progvars, now, envvars, segments, list_file, _record_lock, callvars,
                   event_ts, segs, chosen, releases, spliced, cleanups>>

\* A finally clause that cleans up before it releases.
CleanupFirst(pc) == IF pc = "finally1" THEN "cleanup" ELSE "release"

\* The statements of the finally clause, in order.
FinallyStep(pc) == IF pc = "finally1" THEN "release" ELSE "cleanup"

AfterFinallyStep(pc) == IF pc = "finally1" THEN "finally2" ELSE "none"

InFinally(j) == wpc[j] \in {"finally1", "finally2"}

\* _record_lock.release(); releasing a lock that is not held raises
\* RuntimeError, which ends the finally clause and the thread.  The locals of
\* the try block are dead from here on and are forgotten.
worker_release(j) ==
    /\ Running
    /\ InFinally(j)
    /\ FinallyStep(wpc[j]) = "release"
    /\ wpc' = [wpc EXCEPT ![j] = IF _record_lock THEN AfterFinallyStep(@) ELSE "none"]
    /\ _record_lock' = FALSE
    /\ releases' = [releases EXCEPT ![j] = IF _record_lock THEN @ + 1 ELSE @]
    /\ event_ts' = [event_ts EXCEPT ![j] = 0]
    /\ segs' = [segs EXCEPT ![j] = <<>>]
    /\ chosen' = [chosen EXCEPT ![j] = {}]
    /\ final' = [final EXCEPT ![j] = "none"]
    /\ spliced' = [spliced EXCEPT ![j] = <<>>]
    /\ outcome' = [outcome EXCEPT ![j] = "none"]
    /\ UNCHANGED <<progvars, now, envvars, segments, list_file, callvars, cleanups>>

\* A cleanup that gives up at the first os.remove that raises.
StopAtFirstFailure(buffer_seconds, failed) ==
    segments \ { mt \in Expired(buffer_seconds) : \A f \in failed : mt < f }

\* _cleanup_old_segments(buffer_s): os.remove of every expired segment; the
\* removals in `failed` raise and are passed over.  In worker_cleanup the
\* removals of one call succeed together or fail together.
_cleanup_old_segments(buffer_seconds, failed) ==
    segments \ (Expired(buffer_seconds) \ failed)

worker_cleanup(j) ==
    /\ Running
    /\ InFinally(j)
    /\ FinallyStep(wpc[j]) = "cleanup"
    /\ \E failed \in {{}, Expired(video_config.buffer)} :
        segments' = _cleanup_old_segments(video_config.buffer, failed)
    /\ cleanups' = [cleanups EXCEPT ![j] = @ + 1]
    /\ wpc' = [wpc EXCEPT ![j] = AfterFinallyStep(@)]
    /\ UNCHANGED <<progvars, now, envvars, list_file, _record_lock, callvars,
                   event_ts, segs, chosen, final, releases, outcome, spliced>>

\* ------------------------------------------------------------ environment
\* One second passes; a running recorder closes the segment of that second.
Tick ==
    /\ now < MaxTime
    /\ now' = now + 1
    /\ segments' = IF alive # {} THEN segments \cup {now + 1} ELSE segments
    /\ UNCHANGED <<progvars, envvars, list_file, _record_lock, callvars, jobvars>>

\* --------------------------------------- start_video_buffer, stop_video_buffer
Pids == 1..MaxProcs

\* _proc and _proc.poll() is None
ProcRunning == _proc # 0 /\ _proc \in alive

FreePids == { p \in Pids : p \notin alive /\ p # _proc }

\* The pid subprocess.Popen gives the new recorder process.
NewPid == CHOOSE p \in FreePids : \A q \in FreePids : p <= q

\* The ways a call of start_video_buffer(video_config) can go: the two early
\* returns; else an exception of the set-up (os.makedirs, int(fps)), of
\* _proc.wait(timeout=2) when the previous instance outlives the timeout, or
\* of subprocess.Popen, each caught; or the new process.
StartCauses ==
    IF ~video_config.enabled THEN {"disabled"}
    ELSE IF ~rpicam THEN {"no_binary"}
    ELSE {"setup_raised", "popen_failed"}
         \cup (IF ProcRunning THEN {"wait_timeout"} ELSE {})
         \cup (IF FreePids # {} THEN {"started"} ELSE {})

\* A start that reports success unless video is disabled.
TrueUnlessDisabled(cause) == cause # "disabled"

\* `return True` after Popen, `return False` everywhere else.
StartReturns(cause) == cause = "started"

\* _proc and the running processes after the call: the previous instance has
\* exited once wait() has returned, that is, when Popen is reached.
StartEffect(cause) ==
    /\ _proc' = IF cause = "started" THEN NewPid ELSE _proc
    /\ alive' = CASE cause = "started" -> (alive \ {_proc}) \cup {NewPid}
                  [] cause = "popen_failed" -> alive \ {_proc}
                  [] OTHER -> alive

\* start_video_buffer(video_config) returning ret.
start_video_buffer(ret) ==
    \E cause \in StartCauses : ret = StartReturns(cause) /\ StartEffect(cause)

\* The ways a call of stop_video_buffer() can go: no handle or an instance
\* that has exited; else terminate() raises, or wait(timeout=3) returns in
\* time or raises TimeoutExpired, both exceptions being logged.
StopCauses ==
    IF ProcRunning THEN {"terminated", "wait_timeout", "terminate_raised"}
    ELSE {"not_running"}

\* A stop that clears the handle only at the end of its try block.
HandleKeptOnError(cause) ==
    IF cause \in {"wait_timeout", "terminate_raised"} THEN _proc ELSE 0

\* finally: _proc = None
HandleAfterStop(cause) == 0

StopEffect(cause) ==
    /\ _proc' = HandleAfterStop(cause)
    /\ alive' = IF cause = "terminated" THEN alive \ {_proc} ELSE alive

stop_video_buffer == \E cause \in StopCauses : StopEffect(cause)

\* ------------------------------------------------------------ telemetry sink
\* config.device_and_noise: levels in tenths of a decibel, the window in seconds
device_and_noise == [minimum_noise_level |-> 600, time_window_duration |-> 1]

\* ctrl_transfer results the device is read with: 40.0 dB, and 60.0 dB with
\* bits above the low two set in ret[1].
Readings == { <<100, 0>>, <<44, 5>> }

\* dB = round((ret[0] + ((ret[1] & 3) * 256)) * 0.1 + 30, 1), in tenths
Decibel(ret) == ret[1] + ((ret[2] % 4) * 256) + 300

\* config.influxdb.get("enabled") and InfluxDBClient and write_api
\* A guard that looks at the enabled flag alone.
EnabledOnly == influxdb.enabled

SinkOn == influxdb.enabled /\ influxdb.client /\ influxdb.write_api

\* The point both records of a window carry.
Point(ts, level) == [time |-> ts, noise_level |-> level]

\* realtime_data is a list of one point, main_data is a point.
realtime_data == << Point(current_time, current_peak_dB) >>

main_data == Point(current_time, current_peak_dB)

\* (bucket, [record]): the tuple the sampler queues for a failed write.
QueuedItem(bucket, record) == << bucket, << record >> >>

\* A put at the head of the queue.
PutFirst(q, item) == <<item>> \o q

\* failed_writes_queue.put(item)
Put(q, item) == Append(q, item)

\* Whether write_api.write may raise: the sampler's failures are bounded.
WriteResults == IF Len(failed_writes_queue) < MaxQueue THEN BOOLEAN ELSE {TRUE}

WriteOk(which) == IF which = "realtime" THEN "realtime_ok" ELSE "threshold_ok"

WriteFailed(which) == IF which = "realtime" THEN "realtime_failed" ELSE "threshold_failed"

\* A sampler that makes no write.
NoWrite(which, bucket, record) == wlog' = "none" /\ UNCHANGED failed_writes_queue

\* The guarded write of the sampler: nothing with the sink off; else
\* write_api.write succeeds, or raises and the except clause queues the item.
SamplerWrite(which, bucket, record) ==
    IF SinkOn
    THEN \E ok \in WriteResults :
            /\ failed_writes_queue' =
                 IF ok THEN failed_writes_queue
                 ELSE Put(failed_writes_queue, QueuedItem(bucket, record))
            /\ wlog' = IF ok THEN WriteOk(which) ELSE WriteFailed(which)
    ELSE /\ wlog' = "none"
         /\ UNCHANGED failed_writes_queue

\* ------------------------------------------------------- update_noise_level
\* Lines 351-358: the locals, and the device check whose failure ends the
\* thread by sys.exit(1).
sampler_init ==
    /\ Running
    /\ spc = "init"
    /\ window_start_time' = now
    /\ current_peak_dB' = 0
    /\ last_above_threshold' = FALSE
    /\ \E found \in BOOLEAN : spc' = IF found THEN "loop" ELSE "dead"
    /\ wlog' = "none"
    /\ UNCHANGED <<recvars, mainvars, sinkvars, rpicam, current_time, prev_above,
                   hist>>

\* (current_time - window_start_time) >= time_window_duration
WindowElapsed(t) == t - window_start_time >= device_and_noise.time_window_duration

\* A loop test that does not look at the stop signal.
Unstoppable(stopped) == TRUE

\* while not stop_event.is_set()
KeepsSampling(stopped) == ~stopped

\* Lines 359-364: the loop test, current_time, and the window test.
sampler_loop ==
    /\ Running
    /\ spc = "loop"
    /\ IF ~KeepsSampling(stop_event)
       THEN spc' = "done" /\ UNCHANGED current_time
       ELSE IF WindowElapsed(now)
            THEN spc' = "realtime" /\ current_time' = now
            ELSE spc' = "read" /\ UNCHANGED current_time
    /\ wlog' = "none"
    /\ UNCHANGED <<recvars, mainvars, sinkvars, rpicam, window_start_time,
                   current_peak_dB, last_above_threshold, prev_above, hist>>

\* Lines 381-395: the realtime record of the window.
sampler_realtime ==
    /\ Running
    /\ spc = "realtime"
    /\ SamplerWrite("realtime", "realtime_bucket", realtime_data)
    /\ spc' = "threshold"
    /\ UNCHANGED <<recvars, mainvars, influxdb, retry_item, rpicam, window_start_time,
                   current_peak_dB, last_above_threshold, current_time,
                   prev_above, hist>>

\* A comparison that never finds the peak at the threshold.
NeverAbove(level) == FALSE

\* above_threshold = current_peak_dB >= minimum_noise_level
AboveThreshold(level) == level >= device_and_noise.minimum_noise_level

\* A detector that ignores the previous window.
AboveOnly(above, last) == above

\* if above_threshold and not last_above_threshold
RisingEdge(above, last) == above /\ ~last

\* Lines 451-455: last_above_threshold = above_threshold, and the reset.
WindowReset ==
    /\ last_above_threshold' = AboveThreshold(current_peak_dB)
    /\ window_start_time' = current_time
    /\ current_peak_dB' = 0
    /\ current_time' = 0
    /\ spc' = "read"
    /\ hist' = WindowOpened(hist)

\* Lines 397-430: the comparison and, on a rising edge, the threshold record.
\* With video enabled the trigger follows; else the window ends here.
sampler_threshold ==
    /\ Running
    /\ spc = "threshold"
    /\ prev_above' = (current_peak_dB >= device_and_noise.minimum_noise_level)
    /\ IF RisingEdge(AboveThreshold(current_peak_dB), last_above_threshold)
       THEN /\ SamplerWrite("threshold", "bucket", main_data)
            /\ IF video_config.enabled
               THEN /\ spc' = "trigger"
                    /\ hist' = EventFound(hist, stop_event)
                    /\ UNCHANGED <<window_start_time, current_peak_dB,
                                   last_above_threshold, current_time>>
               ELSE WindowReset
       ELSE /\ wlog' = "none"
            /\ UNCHANGED failed_writes_queue
            /\ WindowReset
    /\ UNCHANGED <<recvars, mainvars, influxdb, retry_item, rpicam>>

\* Lines 432-455: trigger_video_recording has returned or raised (the except
\* clause logs); the window ends.
sampler_after_trigger ==
    /\ Running
    /\ spc = "trigger"
    /\ tpc[SAMPLER] \in {"returned", "raised"}
    /\ tpc' = [tpc EXCEPT ![SAMPLER] = "idle"]
    /\ tret' = [tret EXCEPT ![SAMPLER] = FALSE]
    /\ WindowReset
    /\ wlog' = "none"
    /\ UNCHANGED <<now, envvars, segments, list_file, _record_lock, jobvars,
                   mainvars, sinkvars, rpicam, prev_above>>

\* Lines 457-466: one reading; an exception of the read is logged.
sampler_read ==
    /\ Running
    /\ spc = "read"
    /\ \/ \E ret \in Readings :
            /\ current_peak_dB' = Max(current_peak_dB, Decibel(ret))
            /\ hist' = ReadingTaken(hist, Decibel(ret),
                                    device_and_noise.minimum_noise_level)
       \/ /\ UNCHANGED current_peak_dB
          /\ hist' = ReadFailed(hist)
    /\ spc' = "loop"
    /\ wlog' = "none"
    /\ UNCHANGED <<recvars, mainvars, sinkvars, rpicam, window_start_time,
                   last_above_threshold, current_time, prev_above>>

\* --------------------------------------------------- retry_failed_writes
\* `while not failed_writes_queue.empty(): bucket, data = failed_writes_queue.get()`
retry_get ==
    /\ mpc = "retry"
    /\ IF failed_writes_queue = <<>>
       THEN mpc' = "sleep" /\ UNCHANGED <<failed_writes_queue, retry_item, hist>>
       ELSE /\ retry_item' = Head(failed_writes_queue)
            /\ failed_writes_queue' = Tail(failed_writes_queue)
            /\ mpc' = "retry_write"
            /\ hist' = ItemTaken(hist)
    /\ UNCHANGED <<recvars, test_duration, start_time, stop_event, scheduled,
                   influxdb, samvars, prev_above, wlog, rpicam>>

\* A retry that puts the item whose write raised back at the head.
PutBackFirst(q, item, ok) == IF ok THEN q ELSE <<item>> \o q

\* A retry that puts the item whose write raised back twice.
PutBackTwice(q, item, ok) == IF ok THEN q ELSE Put(Put(q, item), item)

\* A retry that gives up the item whose write raised.
DropOnFailure(q, item, ok) == q

\* The queue after write_api.write(bucket=bucket, record=data) of the retry:
\* as it is when the write succeeds, with the item put back when it raises.
QueueAfterRetry(q, item, ok) == IF ok THEN q ELSE Put(q, item)

\* A retry that goes on to the next item whatever the write did.
AlwaysOn(ok) == "retry"

\* Where retry_failed_writes goes on: the loop test, or `break`.
AfterRetry(ok) == IF ok THEN "retry" ELSE "sleep"

retry_write ==
    /\ mpc = "retry_write"
    /\ \E ok \in BOOLEAN :
        /\ failed_writes_queue' = QueueAfterRetry(failed_writes_queue, retry_item, ok)
        /\ mpc' = AfterRetry(ok)
        /\ hist' = WriteRetried(hist, retry_item, failed_writes_queue, ok)
    /\ retry_item' = <<>>
    /\ UNCHANGED <<recvars, test_duration, start_time, stop_event, scheduled,
                   influxdb, samvars, prev_above, wlog, rpicam>>

\* --------------------------------------------------------------------- main
\* dev_check = detect_usb_device(verbose=False); sys.exit(1) without a device.
main_detect ==
    /\ mpc = "start"
    /\ \E found \in BOOLEAN : mpc' = IF found THEN "video" ELSE "exited"
    /\ UNCHANGED <<recvars, test_duration, start_time, stop_event, scheduled,
                   sinkvars, samvars, histvars, rpicam>>

\* if config.video.get("enabled"): started = start_video_buffer(config.video)
main_start_video ==
    /\ mpc = "video"
    /\ IF video_config.enabled
       THEN \E started \in BOOLEAN : start_video_buffer(started)
       ELSE UNCHANGED <<_proc, alive>>
    /\ mpc' = "thread"
    /\ UNCHANGED <<now, video_config, ffmpeg, segments, list_file, _record_lock,
                   callvars, jobvars, test_duration, start_time, stop_event,
                   scheduled, sinkvars, samvars, histvars, rpicam>>

\* noise_thread.start(); schedule_tasks(); start_time = time.time()
main_start_thread ==
    /\ mpc = "thread"
    /\ spc' = "init"
    /\ scheduled' = influxdb.enabled
    /\ start_time' = now
    /\ mpc' = "loop"
    /\ UNCHANGED <<recvars, test_duration, stop_event, sinkvars, rpicam,
                   window_start_time, current_peak_dB, last_above_threshold,
                   current_time, histvars>>

\* Whether the retry job is due; the ticks a specification counts are bounded.
Dues == IF hist.mode = "retry" /\ hist.ticks >= MaxTicks THEN {FALSE} ELSE BOOLEAN

\* `while not stop_event.is_set(): schedule.run_pending()`: the retry job,
\* when scheduled and due, runs in this thread; retry_failed_writes returns
\* at once unless the sink is on.
main_run_pending ==
    /\ mpc = "loop"
    /\ IF stop_event THEN mpc' = "finally" /\ UNCHANGED hist
       ELSE \E due \in Dues :
              IF scheduled /\ due /\ SinkOn
              THEN mpc' = "retry" /\ hist' = TickStarted(hist, failed_writes_queue)
              ELSE mpc' = "sleep" /\ UNCHANGED hist
    /\ UNCHANGED <<recvars, test_duration, start_time, stop_event, scheduled,
                   sinkvars, samvars, prev_above, wlog, rpicam>>

\* args.test_duration > 0 and (time.time() - start_time) >= args.test_duration
TestDurationElapsed == test_duration > 0 /\ now - start_time >= test_duration

\* time.sleep(1) and the test-duration check.
main_sleep ==
    /\ mpc = "sleep"
    /\ mpc' = IF TestDurationElapsed THEN "finally" ELSE "loop"
    /\ hist' = IF TestDurationElapsed THEN LoopLeft(hist, "duration") ELSE hist
    /\ UNCHANGED <<recvars, test_duration, start_time, stop_event, scheduled,
                   sinkvars, samvars, prev_above, wlog, rpicam>>

\* KeyboardInterrupt in the try block of main: an item retry_failed_writes
\* holds at that moment is neither written nor put back.
main_interrupt ==
    /\ mpc \in {"loop", "retry", "retry_write", "sleep"}
    /\ mpc' = "finally"
    /\ retry_item' = <<>>
    /\ hist' = LoopLeft(hist, "interrupt")
    /\ UNCHANGED <<recvars, test_duration, start_time, stop_event, scheduled,
                   influxdb, failed_writes_queue, samvars, prev_above, wlog, rpicam>>

\* A finally clause that leaves the stop signal as it is.
main_keeps_event ==
    /\ mpc = "finally"
    /\ mpc' = "stop_video"
    /\ UNCHANGED <<recvars, test_duration, start_time, stop_event, scheduled,
                   sinkvars, samvars, histvars, rpicam>>

\* finally: stop_event.set()
main_stop_event ==
    /\ mpc = "finally"
    /\ stop_event' = TRUE
    /\ mpc' = "stop_video"
    /\ UNCHANGED <<recvars, test_duration, start_time, scheduled,
                   sinkvars, samvars, histvars, rpicam>>

\* cleanup_pi_camera() (global_picam2 is None) or stop_video_buffer()
main_stop_video ==
    /\ mpc = "stop_video"
    /\ IF video_config.enabled THEN stop_video_buffer ELSE UNCHANGED <<_proc, alive>>
    /\ start_time' = now
    /\ mpc' = "join"
    /\ UNCHANGED <<now, video_config, ffmpeg, segments, list_file, _record_lock,
                   callvars, jobvars, test_duration, stop_event, scheduled,
                   sinkvars, samvars, histvars, rpicam>>

JOIN_TIMEOUT == 5

\* noise_thread.join(timeout=5), after which main returns and the process,
\* its daemon threads included, ends.
main_join ==
    /\ mpc = "join"
    /\ spc \in {"done", "dead"} \/ now - start_time >= JOIN_TIMEOUT
    /\ mpc' = "exited"
    /\ UNCHANGED <<recvars, test_duration, start_time, stop_event, scheduled,
                   sinkvars, samvars, histvars, rpicam>>

\* ------------------------------------------------------------ initial states
\* config.video
VideoConfigs ==
    { [enabled |-> e, embed |-> m, ints_ok |-> i,
       pre |-> t.pre, post |-> t.post, buffer |-> t.buffer] :
      e \in BOOLEAN, m \in BOOLEAN, i \in BOOLEAN, t \in VideoTimings }

\* config.influxdb["enabled"], InfluxDBClient, write_api
SinkConfigs ==
    { [enabled |-> TRUE, client |-> TRUE, write_api |-> TRUE],
      [enabled |-> TRUE, client |-> TRUE, write_api |-> FALSE],
      [enabled |-> FALSE, client |-> FALSE, write_api |-> FALSE] }

\* Nothing has run yet.
IdleInit ==
    /\ start_time = 0
    /\ stop_event = FALSE
    /\ scheduled = FALSE
    /\ failed_writes_queue = <<>>
    /\ retry_item = <<>>
    /\ spc = "unstarted"
    /\ window_start_time = 0
    /\ current_peak_dB = 0
    /\ last_above_threshold = FALSE
    /\ current_time = 0
    /\ prev_above = FALSE
    /\ wlog = "none"

\* The process at the entry of main().
ProgInit ==
    /\ mpc = "start"
    /\ test_duration \in {0, 2}
    /\ IdleInit

\* A process that has imported video_recording and runs no main().
HostInit ==
    /\ mpc = "host"
    /\ test_duration = 0
    /\ rpicam = TRUE
    /\ influxdb = [enabled |-> FALSE, client |-> FALSE, write_api |-> FALSE]
    /\ IdleInit

\* The module globals of video_recording.py, and no call under way.
RecorderInit ==
    /\ list_file = <<>>
    /\ _record_lock = FALSE
    /\ tpc = [c \in Callers |-> "idle"]
    /\ tret = [c \in Callers |-> FALSE]
    /\ wpc = [j \in JobIds |-> "none"]
    /\ event_ts = [j \in JobIds |-> 0]
    /\ segs = [j \in JobIds |-> <<>>]
    /\ chosen = [j \in JobIds |-> {}]
    /\ final = [j \in JobIds |-> "none"]
    /\ releases = [j \in JobIds |-> 0]
    /\ outcome = [j \in JobIds |-> "none"]
    /\ spliced = [j \in JobIds |-> <<>>]
    /\ cleanups = [j \in JobIds |-> 0]

\* ------------------------------------------- the event recorder on its own
\* video_recording.py as a module: any thread may call
\* trigger_event_recording.  The segment buffer runs and has run for
\* History seconds, or it stopped MIN_KEEP seconds ago and left its last
\* segments, or it never ran.
RecInit ==
    /\ now = 0
    /\ video_config \in VideoConfigs
    /\ ffmpeg \in BOOLEAN
    /\ \E buffer \in {"running", "stopped", "never"} :
        /\ _proc = IF buffer = "running" THEN 1 ELSE 0
        /\ alive = IF buffer = "running" THEN {1} ELSE {}
        /\ segments = CASE buffer = "running" -> (0 - History)..0
                         [] buffer = "stopped" -> (0 - History)..(0 - MIN_KEEP)
                         [] OTHER -> {}
    /\ RecorderInit
    /\ HostInit
    /\ hist = NoHistory

RecNext ==
    \/ \E c \in ExtCallers : trigger_entry(c)
    \/ \E c \in ExtCallers : trigger_spawn(c)
    \/ \E j \in JobIds : worker_sleep(j)
    \/ \E j \in JobIds : worker_list(j)
    \/ \E j \in JobIds : worker_sort(j)
    \/ \E j \in JobIds : worker_write_list(j)
    \/ \E j \in JobIds : worker_ffmpeg(j)
    \/ \E j \in JobIds : worker_verify(j)
    \/ \E j \in JobIds : worker_embed(j)
    \/ \E j \in JobIds : worker_release(j)
    \/ \E j \in JobIds : worker_cleanup(j)
    \/ Tick

SpecRecorder == RecInit /\ [][RecNext]_vars

\* A pre-roll longer than the retention: trigger_event_recording warns when
\* buffer_seconds < pre_event_seconds and goes on.
LongPreRoll == [pre |-> 9, post |-> 1, buffer |-> 1]

\* The recorder with the buffer running, under the timings of VideoTimings
\* and under LongPreRoll.
OverlapInit ==
    /\ now = 0
    /\ video_config \in
          { [c EXCEPT !.pre = t.pre, !.post = t.post, !.buffer = t.buffer] :
            c \in { d \in VideoConfigs : d.enabled /\ d.ints_ok },
            t \in VideoTimings \cup {LongPreRoll} }
    /\ ffmpeg = TRUE
    /\ _proc = 1
    /\ alive = {1}
    /\ segments = (0 - History)..0
    /\ RecorderInit
    /\ HostInit
    /\ hist = NoHistory

SpecOverlap == OverlapInit /\ [][RecNext]_vars

\* ------------------------------------------------------------- the program
\* main() as shipped: write_api is bound nowhere (line 49), so the sink is
\* off even when InfluxDB is enabled and its client imported; video is
\* enabled, with the overlay.  The buffer directory starts empty.
ProgramSinks == { c \in SinkConfigs : c.enabled /\ ~c.write_api }

Init ==
    /\ now = 0
    /\ video_config \in { c \in VideoConfigs : c.enabled /\ c.embed }
    /\ ffmpeg \in BOOLEAN
    /\ _proc = 0
    /\ alive = {}
    /\ segments = {}
    /\ RecorderInit
    /\ ProgInit
    /\ rpicam \in BOOLEAN
    /\ influxdb \in ProgramSinks
    /\ hist = NoHistory

Next ==
    \/ main_detect
    \/ main_start_video
    \/ main_start_thread
    \/ main_run_pending
    \/ main_sleep
    \/ main_interrupt
    \/ main_stop_event
    \/ main_stop_video
    \/ main_join
    \/ sampler_init
    \/ sampler_loop
    \/ sampler_realtime
    \/ sampler_threshold
    \/ trigger_entry(SAMPLER)
    \/ trigger_spawn(SAMPLER)
    \/ sampler_after_trigger
    \/ sampler_read
    \/ \E j \in JobIds : worker_sleep(j)
    \/ \E j \in JobIds : worker_list(j)
    \/ \E j \in JobIds : worker_sort(j)
    \/ \E j \in JobIds : worker_write_list(j)
    \/ \E j \in JobIds : worker_ffmpeg(j)
    \/ \E j \in JobIds : worker_verify(j)
    \/ \E j \in JobIds : worker_embed(j)
    \/ \E j \in JobIds : worker_release(j)
    \/ \E j \in JobIds : worker_cleanup(j)
    \/ Tick

Spec == Init /\ [][Next]_vars

\* ------------------------------------------- the program with a bound sink
\* main() with video disabled, and with write_api bound or not: the sampler,
\* the telemetry sink and the retry of the failed writes.
TelInit ==
    /\ now = 0
    /\ video_config \in { c \in VideoConfigs : ~c.enabled /\ c.embed /\ c.ints_ok }
    /\ ffmpeg = TRUE
    /\ _proc = 0
    /\ alive = {}
    /\ segments = {}
    /\ RecorderInit
    /\ ProgInit
    /\ rpicam = TRUE
    /\ influxdb \in SinkConfigs
    /\ hist = NoHistory

TelNext ==
    \/ main_detect
    \/ main_start_video
    \/ main_start_thread
    \/ main_run_pending
    \/ retry_get
    \/ retry_write
    \/ main_sleep
    \/ main_interrupt
    \/ main_stop_event
    \/ main_stop_video
    \/ main_join
    \/ sampler_init
    \/ sampler_loop
    \/ sampler_realtime
    \/ sampler_threshold
    \/ sampler_read
    \/ Tick

SpecTelemetry == TelInit /\ [][TelNext]_vars

\* ------------------------------------------------- a run with --test-duration
\* main() with --test-duration 1, the length of a window, video enabled,
\* the sink disabled and both binaries present; what the sensor returns and
\* how main leaves its loop are recorded.
RunInit ==
    /\ now = 0
    /\ video_config \in { c \in VideoConfigs : c.enabled /\ c.embed /\ c.ints_ok }
    /\ ffmpeg = TRUE
    /\ _proc = 0
    /\ alive = {}
    /\ segments = {}
    /\ RecorderInit
    /\ mpc = "start"
    /\ test_duration = 1
    /\ IdleInit
    /\ rpicam = TRUE
    /\ influxdb = [enabled |-> FALSE, client |-> FALSE, write_api |-> FALSE]
    /\ hist = RunHistory

\* The steps of the main thread but KeyboardInterrupt, of the sampling thread,
\* and of worker j.
MainStep ==
    \/ main_detect
    \/ main_start_video
    \/ main_start_thread
    \/ main_run_pending
    \/ main_sleep
    \/ main_stop_event
    \/ main_stop_video
    \/ main_join

SamplerThreadStep ==
    \/ sampler_init
    \/ sampler_loop
    \/ sampler_realtime
    \/ sampler_threshold
    \/ trigger_entry(SAMPLER)
    \/ trigger_spawn(SAMPLER)
    \/ sampler_after_trigger
    \/ sampler_read

WorkerRuns(j) ==
    \/ worker_sleep(j)
    \/ worker_list(j)
    \/ worker_sort(j)
    \/ worker_write_list(j)
    \/ worker_ffmpeg(j)
    \/ worker_verify(j)
    \/ worker_embed(j)
    \/ worker_release(j)
    \/ worker_cleanup(j)

\* Every thread is scheduled and the clock advances.
SpecRunFair ==
    /\ RunInit
    /\ [][Next]_vars
    /\ WF_vars(MainStep)
    /\ WF_vars(SamplerThreadStep)
    /\ \A j \in JobIds : WF_vars(WorkerRuns(j))
    /\ WF_vars(Tick)

\* The run of RunInit, by test duration or until KeyboardInterrupt, with the
\* events and jobs of its shutdown counted.
ShutdownInit ==
    /\ now = 0
    /\ video_config \in { c \in VideoConfigs : c.enabled /\ c.embed /\ c.ints_ok }
    /\ ffmpeg = TRUE
    /\ _proc = 0
    /\ alive = {}
    /\ segments = {}
    /\ RecorderInit
    /\ mpc = "start"
    /\ test_duration = 1
    /\ IdleInit
    /\ rpicam = TRUE
    /\ influxdb = [enabled |-> FALSE, client |-> FALSE, write_api |-> FALSE]
    /\ hist = ShutdownHistory

SpecShutdown == ShutdownInit /\ [][Next]_vars

\* ------------------------------------------------- the program left running
\* main() in its loop with no test duration, the recorder running for a
\* little longer than the minimum retention, the sampling thread in its
\* loop, and no event so far.
LongRunInit ==
    /\ now = 0
    /\ video_config \in { c \in VideoConfigs : c.enabled /\ c.ints_ok }
    /\ ffmpeg = TRUE
    /\ _proc = 1
    /\ alive = {1}
    /\ segments = (0 - History)..0
    /\ RecorderInit
    /\ mpc = "loop"
    /\ test_duration = 0
    /\ start_time = 0
    /\ stop_event = FALSE
    /\ scheduled = FALSE
    /\ failed_writes_queue = <<>>
    /\ retry_item = <<>>
    /\ spc = "loop"
    /\ window_start_time = 0
    /\ current_peak_dB = 0
    /\ last_above_threshold = FALSE
    /\ current_time = 0
    /\ prev_above = FALSE
    /\ wlog = "none"
    /\ rpicam = TRUE
    /\ influxdb = [enabled |-> FALSE, client |-> FALSE, write_api |-> FALSE]
    /\ hist = NoHistory

\* The steps of main's loop.
MainLoopStep == main_run_pending \/ main_sleep

\* The steps of the sampling thread in its loop.
SamplerLoopStep ==
    \/ sampler_loop
    \/ sampler_realtime
    \/ sampler_threshold
    \/ trigger_entry(SAMPLER)
    \/ trigger_spawn(SAMPLER)
    \/ sampler_after_trigger
    \/ sampler_read

LongRunNext ==
    \/ MainLoopStep
    \/ SamplerLoopStep
    \/ \E j \in JobIds : WorkerRuns(j)
    \/ Tick

\* Every thread is scheduled and the clock advances.
SpecLongRunFair ==
    /\ LongRunInit
    /\ [][LongRunNext]_vars
    /\ WF_vars(MainLoopStep)
    /\ WF_vars(SamplerLoopStep)
    /\ \A j \in JobIds : WF_vars(WorkerRuns(j))
    /\ WF_vars(Tick)

\* ------------------------------------------- the window close and its errors
\* main() with the sink bound and video enabled with a pre_event_seconds that
\* int() rejects: a write may raise at every window close and the trigger
\* raises whenever it has taken the lock, so that no worker ever starts.
WindowsInit ==
    /\ now = 0
    /\ video_config \in { c \in VideoConfigs : c.enabled /\ c.embed /\ ~c.ints_ok }
    /\ ffmpeg = TRUE
    /\ _proc = 0
    /\ alive = {}
    /\ segments = {}
    /\ RecorderInit
    /\ ProgInit
    /\ rpicam = TRUE
    /\ influxdb = [enabled |-> TRUE, client |-> TRUE, write_api |-> TRUE]
    /\ hist = NoHistory

WindowsNext ==
    \/ main_detect
    \/ main_start_video
    \/ main_start_thread
    \/ main_run_pending
    \/ retry_get
    \/ retry_write
    \/ main_sleep
    \/ main_interrupt
    \/ main_stop_event
    \/ main_stop_video
    \/ main_join
    \/ sampler_init
    \/ sampler_loop
    \/ sampler_realtime
    \/ sampler_threshold
    \/ trigger_entry(SAMPLER)
    \/ trigger_spawn(SAMPLER)
    \/ sampler_after_trigger
    \/ sampler_read
    \/ Tick

SpecWindows == WindowsInit /\ [][WindowsNext]_vars

\* ------------------------------------------ the segment buffer supervisor
RetName(b) == IF b THEN "True" ELSE "False"

\* A thread of the host process calls start_video_buffer(config.video).
supervisor_start ==
    /\ \E cause \in StartCauses :
        /\ StartEffect(cause)
        /\ hist' = Called(hist, "start", cause, RetName(StartReturns(cause)))
    /\ UNCHANGED <<now, video_config, ffmpeg, segments, list_file, _record_lock,
                   callvars, jobvars, mainvars, sinkvars, samvars, prev_above,
                   wlog, rpicam>>

\* A thread of the host process calls stop_video_buffer().
supervisor_stop ==
    /\ \E cause \in StopCauses :
        /\ StopEffect(cause)
        /\ hist' = Called(hist, "stop", cause, "None")
    /\ UNCHANGED <<now, video_config, ffmpeg, segments, list_file, _record_lock,
                   callvars, jobvars, mainvars, sinkvars, samvars, prev_above,
                   wlog, rpicam>>

\* A recorder process ends: by itself, or late after a terminate().
proc_exit ==
    /\ \E p \in alive : alive' = alive \ {p}
    /\ UNCHANGED <<now, video_config, ffmpeg, _proc, segments, list_file,
                   _record_lock, callvars, jobvars, progvars>>

\* video_recording.py as a module, nothing started yet.
SupervisorInit ==
    /\ now = 0
    /\ video_config \in { c \in VideoConfigs : c.embed /\ c.ints_ok }
    /\ ffmpeg = TRUE
    /\ _proc = 0
    /\ alive = {}
    /\ segments = {}
    /\ RecorderInit
    /\ mpc = "host"
    /\ test_duration = 0
    /\ rpicam \in BOOLEAN
    /\ influxdb = [enabled |-> FALSE, client |-> FALSE, write_api |-> FALSE]
    /\ IdleInit
    /\ hist = SupervisorHistory

SupervisorNext ==
    \/ supervisor_start
    \/ supervisor_stop
    \/ proc_exit
    \/ Tick

SpecSupervisor == SupervisorInit /\ [][SupervisorNext]_vars

\* --------------------------------------------- the sampler and its windows
\* main() as shipped with video disabled and InfluxDB disabled, the readings
\* of each window observed.
SamplerInit ==
    /\ now = 0
    /\ video_config \in { c \in VideoConfigs : ~c.enabled /\ c.embed /\ c.ints_ok }
    /\ ffmpeg = TRUE
    /\ _proc = 0
    /\ alive = {}
    /\ segments = {}
    /\ RecorderInit
    /\ ProgInit
    /\ rpicam = TRUE
    /\ influxdb = [enabled |-> FALSE, client |-> FALSE, write_api |-> FALSE]
    /\ hist = SamplerHistory

SamplerNext ==
    \/ main_detect
    \/ main_start_video
    \/ main_start_thread
    \/ main_run_pending
    \/ main_sleep
    \/ main_interrupt
    \/ main_stop_event
    \/ main_stop_video
    \/ main_join
    \/ sampler_init
    \/ sampler_loop
    \/ sampler_realtime
    \/ sampler_threshold
    \/ sampler_read
    \/ Tick

SpecSampler == SamplerInit /\ [][SamplerNext]_vars

\* The sampling thread is scheduled: when it can take a step it takes one.
SamplerStep ==
    \/ sampler_init
    \/ sampler_loop
    \/ sampler_realtime
    \/ sampler_threshold
    \/ sampler_read

SpecSamplerFair == SamplerInit /\ [][SamplerNext]_vars /\ WF_vars(SamplerStep)

\* ------------------------------------ the event recorder, scheduled fairly
\* subprocess.run(ffmpeg_cmd, check=True, capture_output=True, text=True) has
\* no timeout: an ffmpeg that does not end keeps the worker in that call.
worker_ffmpeg_hangs(j) ==
    /\ Running
    /\ wpc[j] = "ffmpeg"
    /\ wpc' = [wpc EXCEPT ![j] = "hung"]
    /\ spliced' = [spliced EXCEPT ![j] = Append(@, IF list_file = <<>> THEN <<>> ELSE list_file[1])]
    /\ UNCHANGED <<progvars, now, envvars, segments, list_file, _record_lock, callvars,
                   event_ts, segs, chosen, final, releases, outcome, cleanups>>

\* subprocess.run(["python", embed_text_path, ...]) has no timeout either.
worker_embed_hangs(j) ==
    /\ Running
    /\ wpc[j] = "embed"
    /\ wpc' = [wpc EXCEPT ![j] = "hung"]
    /\ UNCHANGED <<progvars, now, envvars, segments, list_file, _record_lock, callvars,
                   event_ts, segs, chosen, final, releases, outcome, spliced, cleanups>>

\* One thread calls trigger_event_recording, again and again.
FairNext ==
    \/ trigger_entry(1)
    \/ trigger_spawn(1)
    \/ \E j \in JobIds : worker_sleep(j)
    \/ \E j \in JobIds : worker_list(j)
    \/ \E j \in JobIds : worker_sort(j)
    \/ \E j \in JobIds : worker_write_list(j)
    \/ \E j \in JobIds : worker_ffmpeg(j)
    \/ \E j \in JobIds : worker_ffmpeg_hangs(j)
    \/ \E j \in JobIds : worker_verify(j)
    \/ \E j \in JobIds : worker_embed(j)
    \/ \E j \in JobIds : worker_embed_hangs(j)
    \/ \E j \in JobIds : worker_release(j)
    \/ \E j \in JobIds : worker_cleanup(j)
    \/ Tick

\* Video enabled with the overlay, ffmpeg present, the buffer running.
FairInit ==
    /\ now = 0
    /\ video_config \in { c \in VideoConfigs : c.enabled /\ c.embed /\ c.ints_ok }
    /\ ffmpeg = TRUE
    /\ _proc = 1
    /\ alive = {1}
    /\ segments = (0 - History)..0
    /\ RecorderInit
    /\ HostInit
    /\ hist = NoHistory

\* Threads are scheduled fairly and the clock advances: a worker that can
\* take a step takes one.  Whether a subprocess ends is not a matter of
\* scheduling: the step that ends it may be the one that hangs.
WorkerStep(j) ==
    \/ worker_sleep(j)
    \/ worker_list(j)
    \/ worker_sort(j)
    \/ worker_write_list(j)
    \/ worker_ffmpeg(j) \/ worker_ffmpeg_hangs(j)
    \/ worker_verify(j)
    \/ worker_embed(j) \/ worker_embed_hangs(j)
    \/ worker_release(j)
    \/ worker_cleanup(j)

SpecRecorderFair ==
    /\ FairInit
    /\ [][FairNext]_vars
    /\ \A j \in JobIds : WF_vars(WorkerStep(j))
    /\ WF_vars(Tick)

\* ------------------------------------------------ check_configuration on its own
\* The values of config.json: a key that is absent, null, a string, a
\* number, a boolean.
Absent == [t |-> "absent", n |-> 0, s |-> ""]
PyNone == [t |-> "none", n |-> 0, s |-> ""]
Str(x) == [t |-> "str", n |-> 0, s |-> x]
Num(k) == [t |-> "int", n |-> k, s |-> ""]
Bool(b) == [t |-> "bool", n |-> (IF b THEN 1 ELSE 0), s |-> ""]

\* The truth value Python gives `not x` its operand.
Truthy(v) ==
    \/ v.t = "str" /\ v.s # ""
    \/ v.t \in {"int", "bool"} /\ v.n # 0

\* str(x)
PyStr(v) ==
    CASE v.t = "str" -> v.s
      [] v.t = "int" -> ToString(v.n)
      [] v.t = "bool" -> (IF v.n = 1 THEN "True" ELSE "False")
      [] OTHER -> "None"

\* s.startswith(p)
StartsWith(s, p) == Len(s) >= Len(p) /\ SubSeq(s, 1, Len(p)) = p

\* dict.get(k, default)
ConfigGet(d, k, default) == IF d[k].t = "absent" THEN default ELSE d[k]

required_fields == <<"host", "port", "token", "org", "bucket", "realtime_bucket">>

\* A field test that knows placeholders only.
PlaceholderOnly(v) == StartsWith(PyStr(v), "<YOUR_")

\* not config.influxdb.get(field) or str(config.influxdb.get(field)).startswith("<YOUR_")
FieldBad(v) == ~Truthy(v) \/ StartsWith(PyStr(v), "<YOUR_")

\* influxdb_missing at line 207: the fields of the loop, then the two bucket names.
influxdb_missing(d) ==
    SelectSeq(required_fields, LAMBDA f : FieldBad(ConfigGet(d, f, PyNone)))
      \o (IF ConfigGet(d, "bucket", Str("")) # Str("noise_buster")
          THEN <<"bucket">> ELSE <<>>)
      \o (IF ConfigGet(d, "realtime_bucket", Str("")) # Str("noise_buster_realtime")
          THEN <<"realtime_bucket">> ELSE <<>>)

\* Lines 190-215: config.influxdb after check_configuration.
check_configuration(d) ==
    IF Truthy(ConfigGet(d, "enabled", PyNone))
    THEN IF influxdb_missing(d) # <<>>
         THEN [d EXCEPT !["enabled"] = Bool(FALSE)]
         ELSE d
    ELSE d

\* INFLUXDB_CONFIG objects: every key absent or present with values of the
\* kinds JSON has.
InfluxConfigs ==
    [ enabled : {Absent, Bool(TRUE), Bool(FALSE)},
      host : {Absent, Str(""), Str("<YOUR_HOST>"), Str("localhost")},
      port : {Absent, Num(0), Num(8086), Str("<YOUR_PORT>")},
      token : {Absent, PyNone, Str("<YOUR_TOKEN>"), Str("x<YOUR_"), Str("tok")},
      org : {Absent, Str("<YOUR_ORG>"), Str("org")},
      bucket : {Absent, Str(""), Str("<YOUR_BUCKET>"), Str("noise_buster"),
                Str("noise_buster_realtime")},
      realtime_bucket : {Absent, Str("<YOUR_BUCKET>"), Str("noise_buster"),
                         Str("noise_buster_realtime")} ]

\* check_configuration() called on a configuration, as the test does; one
\* call is observed.
config_call ==
    /\ ~hist.called
    /\ \E d \in InfluxConfigs : hist' = Checked(hist, d, check_configuration(d))
    /\ UNCHANGED <<recvars, mainvars, sinkvars, samvars, prev_above, wlog, rpicam>>

ConfigInit ==
    /\ now = 0
    /\ video_config \in { c \in VideoConfigs : ~c.enabled /\ c.embed /\ c.ints_ok }
    /\ ffmpeg = TRUE
    /\ _proc = 0
    /\ alive = {}
    /\ segments = {}
    /\ RecorderInit
    /\ HostInit
    /\ hist = ConfigHistory

ConfigNext == config_call

SpecConfig == ConfigInit /\ [][ConfigNext]_vars

\* --------------------------------------------------- _list_segments on its own
\* File names as <<prefix, number, suffix>>, and modification times.
FileNames == { <<p, 1, s>> : p \in {"seg_", "old_"}, s \in {".h264", ".mp4", ".txt"} }

Mtimes == {1, 2}

\* What os.listdir(_buffer_dir) can give: up to MaxFiles entries of distinct
\* names, in any order, each with its modification time.
DirListings ==
    UNION { { l \in [1..n -> [name : FileNames, mtime : Mtimes]] :
                \A i, j \in 1..n : l[i].name = l[j].name => i = j } :
            n \in 0..MaxFiles }

\* A filter that knows .h264 only.
H264Only(name) == name[1] = "seg_" /\ name[3] = ".h264"

\* name.startswith("seg_") and (name.endswith(".h264") or name.endswith(".mp4"))
SegmentName(name) == name[1] = "seg_" /\ (name[3] = ".h264" \/ name[3] = ".mp4")

\* os.path.join(_buffer_dir, name)
PathOf(name) == <<"videos", "buffer", name>>

\* items after the for loop: the matching entries whose getmtime succeeded,
\* in listing order.
RECURSIVE Collected(_, _, _)
Collected(listing, gone, i) ==
    IF i > Len(listing) THEN <<>>
    ELSE (IF SegmentName(listing[i].name) /\ i \notin gone
          THEN << <<PathOf(listing[i].name), listing[i].mtime>> >>
          ELSE <<>>) \o Collected(listing, gone, i + 1)

\* items.sort(key=lambda x: x[1]): a stable sort, by insertion.
RECURSIVE InsertByMtime(_, _)
InsertByMtime(s, x) ==
    IF s = <<>> THEN <<x>>
    ELSE IF s[Len(s)][2] <= x[2] THEN Append(s, x)
    ELSE Append(InsertByMtime(SubSeq(s, 1, Len(s) - 1), x), s[Len(s)])

RECURSIVE SortByMtime(_)
SortByMtime(items) ==
    IF items = <<>> THEN <<>>
    ELSE InsertByMtime(SortByMtime(SubSeq(items, 1, Len(items) - 1)), items[Len(items)])

\* _list_segments() on a buffer directory given by isdir and listing.
ListSegmentsOf(isdir, listing, gone) ==
    IF ~isdir THEN <<>> ELSE SortByMtime(Collected(listing, gone, 1))

\* _list_segments() called directly, as the tests do, on any directory; one
\* call is observed.
listing_call ==
    /\ ~hist.called
    /\ \E isdir \in BOOLEAN :
       \E listing \in (IF isdir THEN DirListings ELSE {<<>>}) :
       \E gone \in SUBSET (1..Len(listing)) :
          hist' = Listed(hist, isdir, listing, gone, ListSegmentsOf(isdir, listing, gone))
    /\ UNCHANGED <<recvars, mainvars, sinkvars, samvars, prev_above, wlog, rpicam>>

ListingInit ==
    /\ now = 0
    /\ video_config \in { c \in VideoConfigs : c.enabled /\ c.embed /\ c.ints_ok }
    /\ ffmpeg = TRUE
    /\ _proc = 0
    /\ alive = {}
    /\ segments = {}
    /\ RecorderInit
    /\ HostInit
    /\ hist = ListingHistory

ListingNext == listing_call

SpecListing == ListingInit /\ [][ListingNext]_vars

\* ------------------------------------------- _cleanup_old_segments on its own
\* buffer_seconds below and above the minimum retention of 10 s.
CleanupTimings == { [pre |-> 1, post |-> 1, buffer |-> b] : b \in {1, 6} }

\* Modification times around both retentions (10 s and 12 s) at time 0.
OldSegments == (0 - 13)..(0 - 9)

\* _cleanup_old_segments(buffer_seconds) called directly, as the tests do;
\* os.remove raises for any of the expired segments.
cleanup_call ==
    /\ \E failed \in SUBSET Expired(video_config.buffer) :
        /\ segments' = _cleanup_old_segments(video_config.buffer, failed)
        /\ hist' = CleanupCalled(hist, failed)
    /\ UNCHANGED <<now, envvars, list_file, _record_lock, callvars, jobvars,
                   mainvars, sinkvars, samvars, prev_above, wlog, rpicam>>

\* A stopped recorder has left segments of these ages.
CleanupInit ==
    /\ now = 0
    /\ video_config \in
         { [enabled |-> TRUE, embed |-> TRUE, ints_ok |-> TRUE,
            pre |-> t.pre, post |-> t.post, buffer |-> t.buffer] : t \in CleanupTimings }
    /\ ffmpeg = TRUE
    /\ _proc = 0
    /\ alive = {}
    /\ segments \in SUBSET OldSegments
    /\ RecorderInit
    /\ HostInit
    /\ hist = CleanupHistory

CleanupNext ==
    \/ cleanup_call
    \/ Tick

SpecCleanup == CleanupInit /\ [][CleanupNext]_vars

\* ---------------------------------------------- the retry of failed writes
\* The records of two windows, closed at 1 (60.0 dB, a noise event) and at 2
\* (40.0 dB), in the order the sampler writes them.
Produced ==
    << QueuedItem("realtime_bucket", << Point(1, 600) >>),
       QueuedItem("bucket", Point(1, 600)),
       QueuedItem("realtime_bucket", << Point(2, 400) >>) >>

\* The queues the sampler has left when some of these writes failed.
RetryQueues ==
    { [k \in 1..Cardinality(I) |-> Produced[SortedSeq(I)[k]]] :
      I \in { J \in SUBSET (1..Len(Produced)) : J # {} /\ Cardinality(J) <= MaxQueue } }

\* main() in its loop with the sink on and video disabled, the sampler in
\* its third window and taking no step meanwhile, failed writes queued.
RetryInit ==
    /\ now = 2
    /\ video_config \in { c \in VideoConfigs : ~c.enabled /\ c.embed /\ c.ints_ok }
    /\ ffmpeg = TRUE
    /\ _proc = 0
    /\ alive = {}
    /\ segments = {}
    /\ RecorderInit
    /\ rpicam = TRUE
    /\ influxdb = [enabled |-> TRUE, client |-> TRUE, write_api |-> TRUE]
    /\ mpc = "loop"
    /\ test_duration = 0
    /\ start_time = 0
    /\ stop_event = FALSE
    /\ scheduled = TRUE
    /\ failed_writes_queue \in RetryQueues
    /\ retry_item = <<>>
    /\ spc = "read"
    /\ window_start_time = 2
    /\ current_peak_dB = 0
    /\ last_above_threshold = FALSE
    /\ current_time = 0
    /\ prev_above = FALSE
    /\ wlog = "none"
    /\ hist = RetryHistory

RetryNext ==
    \/ main_run_pending
    \/ retry_get
    \/ retry_write
    \/ main_sleep
    \/ Tick

SpecRetry == RetryInit /\ [][RetryNext]_vars

\* The retry runs in main's thread, inside schedule.run_pending(): main goes
\* on to the next statement of retry_failed_writes as long as it has one, and
\* write_api.write returns or raises.
RetryStep == retry_get \/ retry_write

SpecRetryFair == RetryInit /\ [][RetryNext]_vars /\ WF_vars(RetryStep)

\* ===================================================== the event recorder
\* The positions of _worker inside its try block.
TryStates == {"sleep", "list", "sort", "write_list", "ffmpeg", "verify", "embed"}

\* Calls that hold the lock and have not yet started their worker.
ActiveCalls == { c \in Callers : tpc[c] = "acquired" }

\* Workers that have not yet released the lock.
ActiveWorkers == { j \in JobIds : wpc[j] # "none" /\ releases[j] = 0 }

JobActive == ActiveCalls # {} \/ ActiveWorkers # {}

\* Caller c enters trigger_event_recording in this step.
EntryStep(c) ==
    /\ tpc[c] \in {"idle", "returned", "raised"}
    /\ tpc'[c] # tpc[c] \/ tret'[c] # tret[c]

\* Caller c leaves the second half of trigger_event_recording in this step.
SpawnStep(c) == tpc[c] = "acquired" /\ tpc'[c] # "acquired"

\* The workers this step starts.
Started == { j \in JobIds : wpc[j] = "none" /\ wpc'[j] # "none" }

\* C2: under every interleaving of trigger_event_recording calls and worker
\* steps, at most one job is active, a job being active from the successful
\* non-blocking acquire of _record_lock until its worker releases the lock.
C2_SingleFlight ==
    Cardinality(ActiveCalls) + Cardinality(ActiveWorkers) <= 1

\* A worker is inside its try block, one caller was accepted and another,
\* with video enabled and ffmpeg present, was turned away.
C2_Witness ==
    /\ video_config.enabled /\ ffmpeg /\ _record_lock
    /\ \E j \in ActiveWorkers : wpc[j] \in TryStates
    /\ \E c, d \in Callers :
        /\ tpc[c] = "returned" /\ tret[c]
        /\ tpc[d] = "returned" /\ ~tret[d]

\* Some worker has run to its end.
SomeFinished == \E j \in JobIds : wpc[j] = "none" /\ releases[j] = 1

\* C3: a call made while a job is active returns False, starts no worker and
\* leaves nothing behind for later; a step starts a worker only as the one
\* worker of a call that returns True; and once a worker has finished and no
\* job is active, the next call (video enabled, ffmpeg present) takes the lock
\* and returns True.
C3_RejectWhileActive ==
    [][ /\ \A c \in Callers :
            /\ (JobActive /\ EntryStep(c)) =>
                  /\ tpc'[c] = "returned" /\ ~tret'[c]
                  /\ UNCHANGED <<_record_lock, jobvars, list_file, segments>>
            /\ (SomeFinished /\ ~JobActive /\ video_config.enabled /\ ffmpeg
                  /\ EntryStep(c)) => tpc'[c] = "acquired" /\ _record_lock'
            /\ (SomeFinished /\ SpawnStep(c)) => tpc'[c] = "returned" /\ tret'[c]
        /\ Cardinality(Started) =
             Cardinality({ c \in Callers : SpawnStep(c) /\ tret'[c] })
        /\ Cardinality(Started) <= 1
      ]_vars

\* A worker has finished, a later job was accepted and is active, and a
\* call made meanwhile was turned away.
C3_Witness ==
    /\ \E j, k \in JobIds :
        /\ wpc[j] = "none" /\ releases[j] = 1 /\ cleanups[j] = 1
        /\ wpc[k] = "sleep" /\ k > j
    /\ \E c, d \in Callers :
        /\ tpc[c] = "returned" /\ tret[c]
        /\ tpc[d] = "returned" /\ ~tret[d]

\* C4: a worker releases the lock exactly once whatever path it leaves its
\* try block by, and calls _cleanup_old_segments only after the release:
\* nothing is released or cleaned inside the try block, the cleanup has not
\* run when the release has just happened, and a finished worker has done
\* each once.
C4_ReleaseOnceThenCleanup ==
    \A j \in JobIds :
        /\ cleanups[j] <= releases[j]
        /\ releases[j] <= 1
        /\ wpc[j] \in TryStates \cup {"finally1"} =>
              releases[j] = 0 /\ cleanups[j] = 0
        /\ wpc[j] = "finally2" => releases[j] = 1 /\ cleanups[j] = 0
        /\ (wpc[j] = "none" /\ cleanups[j] > 0) => releases[j] = 1 /\ cleanups[j] = 1

\* Two workers have finished, each after one release and one cleanup.
C4_Witness ==
    \A j \in JobIds : wpc[j] = "none" /\ releases[j] = 1 /\ cleanups[j] = 1

\* C5: a call that returns False (video disabled, ffmpeg absent, or the lock
\* held) changes nothing: the lock is as before, no worker is started, no
\* file is created or deleted.
C5_FalseHasNoEffect ==
    [][ \A c \in Callers :
          (EntryStep(c) /\ tpc'[c] = "returned" /\ ~tret'[c]) =>
              UNCHANGED <<_record_lock, jobvars, segments, list_file>>
      ]_vars

\* A call was turned away for want of ffmpeg: the lock is free and the
\* buffer directory holds segments.
C5_Witness ==
    /\ video_config.enabled /\ ~ffmpeg /\ ~_record_lock
    /\ segments # {}
    /\ \E c \in Callers : tpc[c] = "returned" /\ ~tret[c]

\* C6: with video enabled, ffmpeg present and the lock free, a call takes the
\* lock, starts exactly one worker, which has taken no step, and returns True.
C6_AcceptsAndReturns ==
    [][ \A c \in Callers :
          /\ (EntryStep(c) /\ video_config.enabled /\ ffmpeg /\ ~_record_lock) =>
                tpc'[c] = "acquired" /\ _record_lock'
          /\ SpawnStep(c) =>
                /\ tpc'[c] = "returned" /\ tret'[c]
                /\ Cardinality(Started) = 1
                /\ \A j \in Started : wpc'[j] = "sleep"
      ]_vars

\* C7: with embed_decibel_reading set, a worker whose post-processing failed
\* still has the spliced output it verified.
C7_ArtifactSurvivesOverlay ==
    \A j \in JobIds :
        (video_config.embed /\ wpc[j] = "finally1" /\ outcome[j] = "post_failed")
            => final[j] = "ok"

\* The listed segments whose modification time lies in the closed interval
\* from event_ts - pre - 2 to event_ts + post + 2.
Qualifying(listing, ets) ==
    { mt \in Range(listing) :
        /\ ets - video_config.pre - 2 <= mt
        /\ mt <= ets + video_config.post + 2 }

\* C8: what a worker selects, and what every invocation of the splicer is
\* given, is exactly the listed segments inside the closed window, grace 2 s.
C8_SelectionIsWindow ==
    \A j \in JobIds :
        /\ chosen[j] = Qualifying(segs[j], event_ts[j])
        /\ \A i \in 1..Len(spliced[j]) :
              Range(spliced[j][i]) = Qualifying(segs[j], event_ts[j])

\* The splicer has been given both ends of a window, with listed segments
\* left out on either side of it.
C8_Witness ==
    \E j \in JobIds :
        /\ Len(spliced[j]) = 1
        /\ (event_ts[j] - video_config.pre - 2) \in Range(spliced[j][1])
        /\ (event_ts[j] + video_config.post + 2) \in Range(spliced[j][1])
        /\ (event_ts[j] - video_config.pre - 3) \in Range(segs[j])
        /\ (event_ts[j] + video_config.post + 3) \in Range(segs[j])

\* C9: a worker whose listing has no segment inside the window fails: it
\* leaves the try block at once, it has invoked no splicer and made no list
\* file and no output, and its next step releases the lock.
C9_NoSegmentsFails ==
    [][ \A j \in JobIds :
          /\ (wpc[j] = "sort" /\ chosen[j] = {} /\ wpc'[j] # "sort") =>
                /\ wpc'[j] = "finally1" /\ outcome'[j] = "no_segments"
                /\ spliced'[j] = <<>> /\ final'[j] = "none"
                /\ UNCHANGED <<list_file, segments>>
          /\ (wpc[j] = "finally1" /\ outcome[j] = "no_segments" /\ wpc'[j] # "finally1") =>
                /\ _record_lock /\ ~_record_lock' /\ releases'[j] = 1
                /\ UNCHANGED <<list_file, segments>>
      ]_vars

\* A worker that listed segments, none of them in its window, has left the
\* try block as failed.
C9_Witness ==
    \E j \in JobIds :
        /\ wpc[j] = "finally1" /\ outcome[j] = "no_segments"
        /\ segs[j] # <<>>
        /\ spliced[j] = <<>> /\ final[j] = "none" /\ list_file = <<>>
\* ============================================== the sampler and the sink
\* C1: an event (the threshold record and the recording trigger) is emitted
\* exactly at the close of a window whose peak is at or above
\* minimum_noise_level while the window closed before it was below, the
\* state before the first window counting as below; so once per run of
\* at-or-above windows, and never on an interior or falling window.
C1_RisingEdgeOnly ==
    [][ (spc # "trigger" /\ spc' = "trigger") <=>
          /\ spc = "threshold" /\ spc' # "threshold"
          /\ current_peak_dB >= device_and_noise.minimum_noise_level
          /\ ~prev_above
      ]_vars

\* The job of an earlier event is still running while an at-or-above window
\* that follows an at-or-above window is at its threshold check.
C1_Witness ==
    /\ spc = "threshold"
    /\ prev_above
    /\ current_peak_dB >= device_and_noise.minimum_noise_level
    /\ \E j \in JobIds : wpc[j] # "none" /\ event_ts[j] < current_time

\* C10: when the realtime or the threshold write raises, the record goes to
\* the tail of failed_writes_queue with its bucket, the sampler takes its
\* next step as after a write that succeeded (the threshold check, then the
\* next window), and nothing ends the loop.
C10_FailedWriteQueued ==
    [][ /\ (spc = "realtime" /\ spc' # "realtime" /\ wlog' = "realtime_failed") =>
              /\ failed_writes_queue' =
                   Append(failed_writes_queue,
                          << "realtime_bucket",
                             << << [time |-> current_time,
                                    noise_level |-> current_peak_dB] >> >> >>)
              /\ spc' = "threshold"
        /\ (spc = "threshold" /\ spc' # "threshold" /\ wlog' = "threshold_failed") =>
              /\ failed_writes_queue' =
                   Append(failed_writes_queue,
                          << "bucket",
                             << [time |-> current_time,
                                 noise_level |-> current_peak_dB] >> >>)
              /\ spc' \in {"trigger", "read"}
        /\ (spc \in {"realtime", "threshold"} /\ spc' # spc) =>
              /\ spc' \in {"threshold", "trigger", "read"}
              /\ Len(failed_writes_queue') >= Len(failed_writes_queue)
      ]_vars

\* Both writes of one window have failed: the queue holds the realtime item
\* and, behind it, the threshold item, and the sampler is at its next read.
C10_Witness ==
    /\ spc = "read"
    /\ wlog = "threshold_failed"
    /\ Len(failed_writes_queue) = 2
    /\ failed_writes_queue[1][1] = "realtime_bucket"
    /\ failed_writes_queue[2][1] = "bucket"
    /\ failed_writes_queue[1][2][1][1].time = failed_writes_queue[2][2][1].time

\* ================================================== the retry of failed writes
\* retry_failed_writes takes an item in this step.
TakeStep == mpc = "retry" /\ mpc' = "retry_write"

\* The write of the item taken raises in this step.
FailStep == mpc = "retry_write" /\ mpc' # "retry_write" /\ hist'.fails = hist.fails + 1

\* C11: in one retry tick the items are taken from the head of the queue one
\* at a time; the first write that fails puts its item back at the tail and
\* ends the tick, so that at most one write fails per tick, and the items
\* queued behind are neither attempted nor removed in that tick.
C11_FirstFailureEndsTick ==
    [][ /\ TakeStep =>
            /\ retry_item = <<>>
            /\ retry_item' = Head(failed_writes_queue)
            /\ failed_writes_queue' = Tail(failed_writes_queue)
            /\ hist.tick_fails = 0
        /\ FailStep =>
            /\ failed_writes_queue' = Append(failed_writes_queue, retry_item)
            /\ mpc' = "sleep"
        /\ hist'.tick_fails <= 1
        /\ mpc = "sleep" /\ hist.tick_fails = 1 =>
            failed_writes_queue' = failed_writes_queue ]_vars

\* A tick has ended by a failure, with the failed item behind another.
C11_Witness ==
    /\ hist.mode = "retry"
    /\ mpc = "sleep"
    /\ hist.tick_fails = 1
    /\ Len(failed_writes_queue) >= 2
    /\ failed_writes_queue[Len(failed_writes_queue)] = hist.failing

\* C12: when the retry writes of the queued records raise k times in all and
\* succeed otherwise, the queue is empty after exactly k + 1 retry ticks:
\* between ticks, a queue that still holds an item has seen as many ticks as
\* failures, and an emptied queue one tick more.
C12_DrainedAfterOneMoreTick ==
    hist.mode = "retry" /\ mpc \in {"loop", "sleep"} =>
        hist.ticks = hist.fails + (IF failed_writes_queue = <<>> THEN 1 ELSE 0)

\* Two writes have failed and the queue is empty, the third tick just over.
C12_Witness ==
    /\ hist.mode = "retry"
    /\ mpc = "sleep"
    /\ hist.fails = 2
    /\ hist.ticks = 3
    /\ hist.tick_fails = 0
    /\ failed_writes_queue = <<>>

\* C13 as claimed: an item that stood behind an item whose retry write failed
\* is not attempted as long as that item has not been written.
C13_BehindWaitForSuccess ==
    [][ TakeStep /\ hist.failing # <<>> =>
            retry_item' \notin Range(hist.behind) ]_vars

\* C13, amended: the items that stood behind an item whose retry write failed
\* are not attempted in the tick of that failure; the failed item is put back
\* behind them, so the ticks after it attempt them first, in their order and
\* before the failed item is attempted again.
C13_BehindGoFirstNextTick ==
    [][ /\ TakeStep /\ hist.behind # <<>> =>
            /\ retry_item' = Head(hist.behind)
            /\ hist.ticks > hist.fail_tick
            /\ hist.failing # <<>>
            /\ retry_item' # hist.failing
        /\ FailStep /\ failed_writes_queue # <<>> =>
            /\ mpc' = "sleep"
            /\ Head(failed_writes_queue') = Head(failed_writes_queue)
            /\ failed_writes_queue'[Len(failed_writes_queue')] = retry_item ]_vars

\* An item that stood behind a failed one is being written in a later tick,
\* the failed item still waiting behind it.
C13_Witness ==
    /\ hist.mode = "retry"
    /\ mpc = "retry_write"
    /\ hist.failing # <<>>
    /\ retry_item # hist.failing
    /\ hist.ticks = hist.fail_tick + 1
    /\ hist.failing \in Range(failed_writes_queue)

\* ===================================================== _cleanup_old_segments
\* A call of _cleanup_old_segments is this step.
CleanupStep == hist.mode = "cleanup" /\ hist'.n # hist.n

\* max(10, 2 * buffer_seconds)
Retention == IF 2 * video_config.buffer > 10 THEN 2 * video_config.buffer ELSE 10

\* C14: _cleanup_old_segments(buffer_seconds) removes every listed segment
\* older than max(10, 2 * buffer_seconds) seconds and keeps every younger
\* one; a removal that raises leaves that one segment and the call goes on
\* to remove the others, and returns.
C14_CleanupByAge ==
    [][ CleanupStep =>
          /\ segments' \subseteq segments
          /\ \A mt \in segments :
               /\ now - mt > Retention /\ mt \notin hist'.failed => mt \notin segments'
               /\ now - mt < Retention => mt \in segments'
               /\ mt \in hist'.failed => mt \in segments' ]_vars

\* With buffer_seconds 6 (retention 12) a call has removed a segment although
\* the removal of an older and of a newer expired one raised, and has kept a
\* segment that is 11 s old.
C14_Witness ==
    /\ hist.mode = "cleanup"
    /\ video_config.buffer = 6
    /\ now = 2
    /\ hist.failed = {0 - 13, 0 - 11}
    /\ (0 - 12) \notin segments
    /\ {0 - 13, 0 - 11, 0 - 9} \subseteq segments

\* ============================================================== the sampler
\* The largest of a set of levels, 0 for none.
PeakOf(S) == IF S = {} THEN 0 ELSE CHOOSE x \in S : \A y \in S : x >= y

\* The sampler reads the device in this step.
ReadStep == spc = "read" /\ spc' = "loop"

\* The sampler ends a window in this step.
WindowEnds == spc \in {"threshold", "trigger"} /\ spc' = "read"

\* C15: the peak of a window, which is what the window reports when it
\* closes, is the largest of the valid readings taken in it; it is reset when
\* the next window starts; a read that raises leaves the peak as it was and
\* lets the loop go on as after a valid read.
C15_PeakIsWindowMax ==
    [][ /\ current_peak_dB' = PeakOf(hist'.readings)
        /\ ReadStep /\ hist'.last = "error" =>
            /\ current_peak_dB' = current_peak_dB
            /\ hist'.readings = hist.readings
            /\ UNCHANGED <<window_start_time, last_above_threshold, stop_event>>
        /\ WindowEnds =>
            /\ current_peak_dB' = 0
            /\ hist'.readings = {} ]_vars

\* A window closes after readings of 40.0 and 60.0 dB and a last read that
\* raised: it reports 60.0 dB.
C15_Witness ==
    /\ hist.mode = "sampler"
    /\ spc = "realtime"
    /\ hist.readings = {400, 600}
    /\ hist.last = "error"
    /\ realtime_data[1].noise_level = 600

\* ====================================================== the telemetry records
\* The sampler makes the realtime write of a closing window in this step.
RealtimeStep == spc = "realtime" /\ spc' = "threshold"

\* The sampler makes the comparison of a closing window in this step.
ThresholdStep == spc = "threshold" /\ spc' # "threshold"

\* The closing window is a noise event: its peak is at or above the minimum
\* level and the peak of the window closed before it was below.
NoiseEvent ==
    /\ current_peak_dB >= device_and_noise.minimum_noise_level
    /\ ~prev_above

\* What a closing window must hand to the sink.
RecordsOfWindow ==
    /\ RealtimeStep =>
        /\ wlog' \in {"realtime_ok", "realtime_failed"}
        /\ wlog' = "realtime_failed" =>
             failed_writes_queue' =
                Append(failed_writes_queue, QueuedItem("realtime_bucket", realtime_data))
        /\ wlog' = "realtime_ok" => failed_writes_queue' = failed_writes_queue
    /\ ThresholdStep =>
        /\ wlog' \in {"threshold_ok", "threshold_failed"} <=> NoiseEvent
        /\ wlog' = "threshold_failed" =>
             failed_writes_queue' =
                Append(failed_writes_queue, QueuedItem("bucket", main_data))
        /\ wlog' # "threshold_failed" => failed_writes_queue' = failed_writes_queue

\* C16: with InfluxDB enabled in the configuration and its client loaded,
\* every window that closes produces exactly one realtime record, written or
\* queued, and a threshold record exactly when the window is a noise event.
C16_RecordsPerWindow ==
    [][ influxdb.enabled /\ influxdb.client => RecordsOfWindow ]_vars

\* The same with write_api bound as well.
C16_RecordsPerWindowBound ==
    [][ SinkOn => RecordsOfWindow ]_vars

\* C17: when a window closes, the realtime write is attempted, and its item
\* queued if it fails, before the threshold comparison of that window is
\* made, hence before any threshold write and before the recording trigger.
C17_RealtimeBeforeThreshold ==
    [][ /\ RealtimeStep =>
            /\ UNCHANGED <<last_above_threshold, prev_above, current_peak_dB, current_time>>
            /\ wlog' \notin {"threshold_ok", "threshold_failed"}
            /\ wlog' = "realtime_failed" =>
                 QueuedItem("realtime_bucket", realtime_data) \in Range(failed_writes_queue')
        /\ ThresholdStep /\ SinkOn => wlog \in {"realtime_ok", "realtime_failed"}
        /\ spc' # spc /\ wlog' \in {"threshold_ok", "threshold_failed"} => ThresholdStep
        /\ spc' = "trigger" /\ spc # "trigger" => ThresholdStep ]_vars

\* The comparison of a noise event is about to be made; the realtime write
\* of the window has failed and its item is queued.
C17_Witness ==
    /\ SinkOn
    /\ spc = "threshold"
    /\ wlog = "realtime_failed"
    /\ NoiseEvent
    /\ QueuedItem("realtime_bucket", realtime_data) \in Range(failed_writes_queue)

\* ================================================ the segment buffer supervisor
\* A call of start_video_buffer, of stop_video_buffer, is this step.
StartCall == hist.mode = "supervisor" /\ hist'.n # hist.n /\ hist'.op = "start"

StopCall == hist.mode = "supervisor" /\ hist'.n # hist.n /\ hist'.op = "stop"

\* C18: start_video_buffer returns False, raising nothing, when video is
\* disabled, when rpicam-vid is not on the path and when the creation of the
\* process fails; no process runs after such a call that did not run before
\* it, and the handle is as it was.
C18_StartFailsFast ==
    [][ StartCall /\ hist'.cause \in {"disabled", "no_binary", "popen_failed"} =>
          /\ hist'.ret = "False"
          /\ alive' \subseteq alive
          /\ _proc' = _proc ]_vars

\* The creation of the process has failed after the previous instance had
\* been stopped: the call returned False and no recorder runs.
C18_Witness ==
    /\ hist.mode = "supervisor"
    /\ hist.op = "start"
    /\ hist.cause = "popen_failed"
    /\ hist.ret = "False"
    /\ _proc # 0
    /\ alive = {}

\* C19: start_video_buffer is idempotent: a call that finds the previous
\* recorder running and gets as far as stopping it leaves it terminated, by
\* force if it does not end within the grace period; so, as long as only
\* start calls are made, at most one recorder runs after a call, and exactly
\* one after a call that returned True.
C19_StartIsIdempotent ==
    [][ StartCall /\ ~hist.stopped =>
          /\ ProcRunning /\ hist'.cause \in {"wait_timeout", "popen_failed", "started"} =>
                _proc \notin alive'
          /\ Cardinality(alive') <= 1
          /\ hist'.ret = "True" => Cardinality(alive') = 1 /\ alive' = {_proc'} ]_vars

\* The same without the termination of a recorder that outlives the grace
\* period.
C19_AtMostOneAfterStarts ==
    [][ StartCall /\ ~hist.stopped =>
          /\ ProcRunning /\ hist'.cause \in {"popen_failed", "started"} =>
                _proc \notin alive'
          /\ Cardinality(alive') <= 1
          /\ hist'.ret = "True" => Cardinality(alive') = 1 /\ alive' = {_proc'} ]_vars

\* C20: stop_video_buffer returns, raising nothing, and leaves _proc None
\* whether the process had exited, ended within the grace period, outlived
\* it, or terminate() raised.
C20_StopClearsHandle ==
    [][ StopCall =>
          /\ hist'.cause \in {"not_running", "terminated", "wait_timeout", "terminate_raised"}
          /\ hist'.ret = "None"
          /\ _proc' = 0
          /\ alive' \subseteq alive ]_vars

\* A stop has returned with the handle cleared although the recorder
\* outlived the grace period and still runs.
C20_Witness ==
    /\ hist.mode = "supervisor"
    /\ hist.op = "stop"
    /\ hist.cause = "wait_timeout"
    /\ hist.ret = "None"
    /\ _proc = 0
    /\ alive # {}

\* =========================================================== _list_segments
\* The entries of the last listing that are segments and were still there
\* when their modification time was read, as (path, modification time).
ListedSegments ==
    { << <<"videos", "buffer", hist.listing[i].name>>, hist.listing[i].mtime >> :
        i \in { k \in 1..Len(hist.listing) :
                  /\ k \notin hist.gone
                  /\ hist.listing[k].name[1] = "seg_"
                  /\ hist.listing[k].name[3] \in {".h264", ".mp4"} } }

\* C21: _list_segments returns exactly the files of the buffer directory
\* named seg_*.h264 or seg_*.mp4, each once as (path, modification time), in
\* ascending order of modification time; the empty list when the directory
\* does not exist; a file that is gone when its time is read is left out.
C21_ListingIsSortedSegments ==
    hist.mode = "listing" /\ hist.called =>
        /\ ~hist.isdir => hist.result = <<>>
        /\ hist.isdir =>
            /\ Range(hist.result) = ListedSegments
            /\ Len(hist.result) = Cardinality(ListedSegments)
            /\ \A i, j \in 1..Len(hist.result) :
                 i < j => hist.result[i][2] <= hist.result[j][2]

\* A listing of three files, the newer segment first, an .mp4 segment among
\* them and one segment gone: the two that remain come back oldest first.
C21_Witness ==
    /\ hist.mode = "listing" /\ hist.called /\ hist.isdir
    /\ Len(hist.listing) = 3
    /\ hist.listing[1] = [name |-> <<"seg_", 1, ".mp4">>, mtime |-> 2]
    /\ hist.listing[2].name = <<"old_", 1, ".h264">>
    /\ hist.listing[3] = [name |-> <<"seg_", 1, ".h264">>, mtime |-> 1]
    /\ hist.gone = {}
    /\ hist.result = << << <<"videos", "buffer", <<"seg_", 1, ".h264">> >>, 1 >>,
                        << <<"videos", "buffer", <<"seg_", 1, ".mp4">> >>, 2 >> >>

\* ================================================= the job and the buffer
\* Worker j takes a step of its try block.
TryStep(j) == wpc[j] \in TryStates /\ wpc'[j] # wpc[j]

\* Worker j runs _cleanup_old_segments in this step.
CleanupStepOf(j) == wpc[j] = "finally2" /\ wpc'[j] = "none"

\* C22: a recording job creates, changes and deletes nothing in the buffer
\* directory (the segments and concat_list.txt are what the model holds of
\* it) while it selects and splices; files of the directory are deleted by
\* the cleanup step only, which a worker runs after it has left its try
\* block and released the lock.
C22_JobLeavesBufferAlone ==
    [][ /\ \A j \in JobIds : TryStep(j) => UNCHANGED <<segments, list_file>>
        /\ ~(segments \subseteq segments') =>
             \E j \in JobIds : CleanupStepOf(j) /\ releases[j] = 1 ]_vars

\* The same of the segments alone.
C22_SegmentsLeftAlone ==
    [][ /\ \A j \in JobIds : TryStep(j) => UNCHANGED segments
        /\ ~(segments \subseteq segments') =>
             \E j \in JobIds : CleanupStepOf(j) /\ releases[j] = 1 ]_vars

\* ============================================================ a missing device
\* main is in its scheduler loop.
InMainLoop == mpc \in {"loop", "retry", "retry_write", "sleep"}

\* C23: when the sound meter cannot be acquired the process stops: after
\* main's check has failed nothing is started, and after the check at the
\* start of update_noise_level has failed the sampling loop is not entered
\* and main does not go round its scheduler loop again.
C23_NoDeviceStopsProcess ==
    [][ /\ mpc = "start" /\ mpc' = "exited" => spc' = "unstarted" /\ alive' = {}
        /\ spc = "dead" => spc' = "dead"
        /\ spc = "dead" /\ mpc = "sleep" => mpc' # "loop" ]_vars

\* The same without the last part.
C23_LoopNeverEntered ==
    [][ /\ mpc = "start" /\ mpc' = "exited" => spc' = "unstarted" /\ alive' = {}
        /\ spc = "dead" => spc' = "dead" ]_vars

\* ===================================================== a missing rpicam-vid
\* C24: with video enabled in the configuration and rpicam-vid missing, so
\* that start_video_buffer returned False, video is off altogether: no
\* trigger takes the lock, none returns True and no worker exists.
C24_NoBinaryNoVideo ==
    video_config.enabled /\ ~rpicam =>
        /\ ~_record_lock
        /\ \A c \in Callers : ~tret[c] /\ tpc[c] # "acquired"
        /\ \A j \in JobIds : wpc[j] = "none"

\* What the missing binary does prevent: no recorder process runs and the
\* buffer directory gets no segment.
C24_NoBinaryNoBuffer ==
    video_config.enabled /\ ~rpicam => alive = {} /\ _proc = 0 /\ segments = {}

\* ================================================== the end of every job
\* Worker j is in its try block or about to release the lock, early enough
\* for its post_seconds to pass before the clock of the model stops.
JobUnderWay(j) ==
    /\ wpc[j] \in TryStates \cup {"finally1"}
    /\ event_ts[j] + video_config.post <= MaxTime

\* Worker j has released the lock.
JobOver(j) == wpc[j] \in {"finally2", "none"}

\* C25: every accepted job reaches a terminal state and releases the lock,
\* also when ffmpeg or the overlay script fails or does not end by itself,
\* so that the lock is free again for a later event.
C25_EveryJobEnds ==
    (\E j \in JobIds : JobUnderWay(j)) ~> ~_record_lock

\* The same of the jobs whose subprocesses end.
C25_EveryJobEndsOrHangs ==
    (\E j \in JobIds : JobUnderWay(j)) ~>
        (~_record_lock \/ \E j \in JobIds : wpc[j] = "hung")

\* ============================================== the stop signal and the loop
\* The sampling thread has ended, by itself or with the process.
SamplerEnded == spc \in {"done", "dead"} \/ ~Running

\* A step of the sampling thread.
SamplerMoves == spc' # spc

\* The steps of the loop and the stop signal: with the signal set the loop
\* test ends the loop, the loop ends in no other way, and without the signal
\* a reading, failed or not, leads back to the loop test and from there on.
StopRules ==
    /\ stop_event /\ spc = "loop" /\ SamplerMoves => spc' = "done"
    /\ spc = "done" => spc' = "done"
    /\ spc # "done" /\ spc' = "done" => stop_event /\ spc = "loop"
    /\ spc = "read" /\ SamplerMoves => spc' = "loop"
    /\ ~stop_event /\ spc = "loop" /\ SamplerMoves => spc' \in {"realtime", "read"}

\* C26: once the stop signal is set the sampling loop ends the iteration under
\* way, starts no other and terminates; while the signal is not set the loop
\* goes on, whatever the number of readings that raised.
C26_StopEndsLoop ==
    /\ [][StopRules]_vars
    /\ stop_event ~> SamplerEnded

\* The loop has ended on the stop signal after a window of readings.
C26_Witness == stop_event /\ spc = "done" /\ hist.last = "error"

\* ======================================================= the sink when off
\* The sink is disabled, or enabled without a client library or without a
\* write API bound to a validated destination.
SinkOff == ~influxdb.enabled \/ ~influxdb.client \/ ~influxdb.write_api

\* C27: while the sink is off it does nothing: a window close attempts no
\* write and queues nothing, and retry_failed_writes takes no item, attempts
\* no write and leaves the queue as it is.
C27_SinkOffIsNoOp ==
    [][SinkOff =>
          /\ wlog' = "none"
          /\ failed_writes_queue' = failed_writes_queue
          /\ retry_item' = retry_item
          /\ mpc' \notin {"retry", "retry_write"}]_vars

\* With the sink enabled and no write API, a window has closed above the
\* threshold and the scheduler has run its pending jobs.
C27_Witness ==
    /\ SinkOff /\ influxdb.enabled /\ scheduled
    /\ last_above_threshold
    /\ mpc = "sleep"

\* ====================================================== check_configuration
\* The fields a sink needs, and what makes one missing or a placeholder: the
\* key is absent, null, empty or zero, or holds a "<YOUR_...>" text.
SinkFields == {"host", "port", "token", "org", "bucket", "realtime_bucket"}

MissingValues == {Absent, PyNone, Str(""), Num(0)}

Placeholders ==
    {Str("<YOUR_HOST>"), Str("<YOUR_PORT>"), Str("<YOUR_TOKEN>"), Str("<YOUR_ORG>"),
     Str("<YOUR_BUCKET>")}

InvalidSink(d) ==
    \/ \E f \in SinkFields : d[f] \in MissingValues \cup Placeholders
    \/ d.bucket # Str("noise_buster")
    \/ d.realtime_bucket # Str("noise_buster_realtime")

\* C28: check_configuration returns on every telemetry configuration; of an
\* enabled one it sets enabled to False exactly when a required field is
\* missing or a placeholder or a bucket name is not the required one, and it
\* changes nothing else, so that a valid configuration stays enabled.
C28_InvalidSinkDisabled ==
    hist.called =>
        /\ hist.outcome = "returned"
        /\ \A f \in SinkFields : hist.after[f] = hist.before[f]
        /\ hist.before.enabled = Bool(TRUE) =>
              /\ hist.after.enabled = Bool(FALSE) <=> InvalidSink(hist.before)
              /\ ~InvalidSink(hist.before) => hist.after.enabled = Bool(TRUE)
        /\ hist.before.enabled # Bool(TRUE) => hist.after = hist.before

\* An enabled configuration whose only fault is the name of a bucket has been
\* disabled.
C28_Witness ==
    /\ hist.called
    /\ hist.before.enabled = Bool(TRUE)
    /\ hist.before.host = Str("localhost") /\ hist.before.port = Num(8086)
    /\ hist.before.token = Str("x<YOUR_") /\ hist.before.org = Str("org")
    /\ hist.before.bucket = Str("noise_buster")
    /\ hist.before.realtime_bucket = Str("noise_buster")
    /\ hist.after.enabled = Bool(FALSE)

\* ================================================= a run with --test-duration
\* main has left its loop and returned.
MainReturned == mpc = "exited" /\ stop_event

\* main is in its loop early enough for the test duration to elapse before
\* the clock of the model stops.
InLoopInTime ==
    /\ mpc \in {"loop", "retry", "retry_write", "sleep"}
    /\ test_duration > 0
    /\ start_time + test_duration <= MaxTime

\* Every exit of main's loop passes the finally clause: the stop signal is
\* set and the recorder handle cleared.
ExitRules ==
    /\ mpc' = "exited" /\ mpc \notin {"start", "exited"} => stop_event /\ _proc = 0
    /\ mpc \in {"stop_video", "join"} => stop_event

StepOrder == <<"sleep", "list", "sort", "write_list", "ffmpeg", "verify", "embed">>

\* s is in strictly ascending order of modification time.
Ascending(s) == \A i \in 1..Len(s) : \A k \in 1..Len(s) : i < k => s[i] < s[k]

\* The step of worker j: it enters the try block at the wait and goes from a
\* statement to the next one or out of the block; it lists the segments only
\* with post_seconds elapsed since the event; it runs the splicer at the
\* ffmpeg statement only, for the first time, on the chosen segments, which
\* are some, in ascending order; it post-processes only a verified output
\* with the flag set.
JobOrder(j) ==
    /\ wpc'[j] # wpc[j] /\ wpc'[j] \in TryStates =>
          \/ wpc[j] = "none" /\ wpc'[j] = StepOrder[1]
          \/ \E i \in 1..(Len(StepOrder) - 1) :
                wpc[j] = StepOrder[i] /\ wpc'[j] = StepOrder[i + 1]
    /\ wpc[j] \in TryStates /\ wpc'[j] \notin TryStates => wpc'[j] = "finally1"
    /\ wpc[j] = "list" /\ wpc'[j] # "list" =>
          /\ now >= event_ts[j] + video_config.post
          /\ Range(segs'[j]) = segments
    /\ wpc[j] \in TryStates /\ spliced'[j] # spliced[j] =>
          /\ wpc[j] = "ffmpeg"
          /\ spliced[j] = <<>>
          /\ Len(spliced'[j]) = 1
          /\ spliced'[j][1] # <<>>
          /\ Range(spliced'[j][1]) = chosen[j]
          /\ Ascending(spliced'[j][1])
    /\ wpc[j] = "ffmpeg" /\ wpc'[j] # "ffmpeg" => Len(spliced'[j]) = 1
    /\ wpc[j] = "verify" /\ wpc'[j] = "embed" => final[j] = "ok" /\ video_config.embed
    /\ wpc[j] = "verify" /\ wpc'[j] = "finally1" /\ outcome'[j] = "success" =>
          final[j] = "ok" /\ ~video_config.embed

\* C30: a recording worker waits post_seconds, lists and selects, runs the
\* splicer once on the chosen segments in ascending order of modification
\* time, verifies the output and post-processes it only if it is verified
\* and the flag is set, in this order; the splicer never gets an empty
\* selection and the segments are never listed before the wait is over.
C30_WorkerStepsInOrder == [][\A j \in JobIds : JobOrder(j)]_vars

\* A worker post-processes the output of the one splice it ran, on several
\* segments.
C30_Witness ==
    \E j \in JobIds :
        /\ wpc[j] = "embed"
        /\ Len(spliced[j]) = 1
        /\ Len(spliced[j][1]) >= 2

\* ==================================================== the window close
\* The sampling thread ends a window: it leaves the comparison or the trigger
\* statement for the next reading.
WindowCloses == spc \in {"threshold", "trigger"} /\ spc' = "read"

\* C31: at every window close the previous-above-threshold flag takes the
\* result of the comparison of that window, whether or not an event fires,
\* a write raises or the trigger raises; every window that is evaluated
\* closes, and none of these errors ends the sampling loop.
C31_FlagFollowsEveryWindow ==
    [][ /\ WindowCloses =>
              last_above_threshold' =
                  (current_peak_dB >= device_and_noise.minimum_noise_level)
        /\ spc \in {"realtime", "threshold", "trigger"} /\ spc' # spc =>
              spc' \in {"threshold", "trigger", "read"}
        /\ spc = "trigger" /\ spc' # spc => last_above_threshold'
        /\ last_above_threshold' # last_above_threshold => WindowCloses
        /\ spc' = "done" /\ spc # "done" => stop_event /\ spc = "loop" ]_vars

\* A window has closed above the threshold after the threshold write raised
\* and the trigger raised: the record waits in the queue, the lock is held
\* and no worker runs.
C31_Witness ==
    /\ spc = "read"
    /\ last_above_threshold
    /\ _record_lock /\ \A j \in JobIds : wpc[j] = "none"
    /\ \E i \in 1..Len(failed_writes_queue) : failed_writes_queue[i][1] = "bucket"

\* ================================================ the ledger of failed writes
\* The failed records the program holds: those in the queue and the one the
\* retry has taken for the attempt under way.
Pending == failed_writes_queue \o (IF retry_item = <<>> THEN <<>> ELSE <<retry_item>>)

PendingAfter ==
    failed_writes_queue' \o (IF retry_item' = <<>> THEN <<>> ELSE <<retry_item'>>)

\* The sampling thread has queued a record whose write raised.
SamplerQueues == spc' # spc /\ wlog' \in {"realtime_failed", "threshold_failed"}

\* The retry has written the record it held.
RetryWrites == mpc = "retry_write" /\ mpc' = "retry"

\* KeyboardInterrupt ends main's loop, and with it the retry under way.
Interrupted == mpc # "finally" /\ mpc' = "finally" /\ retry_item # <<>>

\* C32: under every interleaving of the sampling thread queuing failed writes
\* and the retry draining the queue, a failed record is in the queue once or
\* held by the retry, until the retry has written it, once: no step loses a
\* record or doubles one.
C32_NoRecordLostOrDoubled ==
    [][ /\ Cardinality(Range(PendingAfter)) = Len(PendingAfter)
        /\ IF SamplerQueues
           THEN /\ Len(failed_writes_queue') = Len(failed_writes_queue) + 1
                /\ failed_writes_queue'[Len(failed_writes_queue')] \notin Range(Pending)
                /\ Range(PendingAfter) =
                      Range(Pending) \cup {failed_writes_queue'[Len(failed_writes_queue')]}
           ELSE IF RetryWrites
           THEN /\ Range(PendingAfter) = Range(Pending) \ {retry_item}
                /\ Len(PendingAfter) = Len(Pending) - 1
           ELSE Interrupted \/ Range(PendingAfter) = Range(Pending) ]_vars

\* The sampling thread has queued a record while the retry holds another for
\* its attempt.
C32_Witness ==
    /\ mpc = "retry_write"
    /\ wlog \in {"realtime_failed", "threshold_failed"}
    /\ failed_writes_queue # <<>>
    /\ retry_item \notin Range(failed_writes_queue)

\* ===================================================================
\* C33
\* ===================================================================
\* Workers that hold the lock: inside the try block of _worker, or at the
\* finally clause that releases it.
LockHolders == { j \in JobIds : wpc[j] \in TryStates \cup {"finally1"} }

\* C33: whenever the single-flight lock is held, a worker exists that will
\* release it, or the call that took the lock is about to start one: no path
\* of trigger_event_recording that acquires the lock ends, by return or by
\* exception, without a worker started.
C33_HeldLockHasWorker ==
    _record_lock => (LockHolders # {} \/ ActiveCalls # {})

\* ===================================================================
\* C34
\* ===================================================================
\* C34: no recorder runs without a handle: whenever the supervisor's handle
\* has been cleared by stop_video_buffer or replaced by a later start, no
\* recorder started earlier is still alive; a recorder that outlives the
\* grace period is not left running unreferenced.
C34_NoOrphanRecorder ==
    \A p \in alive : p = _proc

\* ===================================================================
\* C35
\* ===================================================================
\* A Python value as repr() shows it: a list and its one element differ.
Repr(x) == ToString(x)

\* The record of the sampler's first attempt in this step, and its bucket:
\* write_api.write(bucket=..., record=realtime_data) at lines 383-385,
\* write_api.write(bucket=..., record=main_data) at lines 419-421.
FirstAttempt ==
    IF spc = "realtime"
    THEN [bucket |-> "realtime_bucket", record |-> Repr(realtime_data)]
    ELSE [bucket |-> "bucket", record |-> Repr(main_data)]

\* What retry_failed_writes will pass for the item queued in this step:
\* write_api.write(bucket=bucket, record=data) at line 488.
RetryAttempt ==
    LET item == failed_writes_queue'[Len(failed_writes_queue')]
    IN  [bucket |-> item[1], record |-> Repr(item[2])]

\* C35: a retried write sends the same record to the same bucket as the
\* failed first attempt, for realtime and for threshold records; the retry
\* takes the queued item as it is.
C35_RetrySendsFirstPayload ==
    [][ /\ SamplerQueues => RetryAttempt = FirstAttempt
        /\ (mpc = "retry" /\ mpc' = "retry_write") =>
              retry_item' = Head(failed_writes_queue) ]_vars

\* The bucket of the retry is the bucket of the first attempt, and the
\* queued payload is a list of one element, the payload of the first attempt.
C35_RetrySendsWrappedPayload ==
    [][ /\ SamplerQueues =>
              LET item == failed_writes_queue'[Len(failed_writes_queue')]
              IN  /\ item[1] = FirstAttempt.bucket
                  /\ Len(item[2]) = 1
                  /\ Repr(item[2][1]) = FirstAttempt.record
        /\ (mpc = "retry" /\ mpc' = "retry_write") =>
              retry_item' = Head(failed_writes_queue) ]_vars

\* ===================================================================
\* C36
\* ===================================================================
\* retry_failed_writes is under way.
InTick == mpc \in {"retry", "retry_write"}

\* The retry takes an item from the queue.
RetryTakes == mpc = "retry" /\ mpc' = "retry_write"

\* Each attempt of a tick is for the next item of the queue as the tick found
\* it: no item is attempted a second time, and the attempts of a tick are no
\* more than the items it found.
AttemptRules ==
    RetryTakes =>
        /\ hist'.tried <= Len(hist.at_start)
        /\ retry_item' = hist.at_start[hist'.tried]

\* C36: with no item queued meanwhile, each tick of retry_failed_writes ends,
\* and within one tick no queued item is attempted more than once.
C36_TickEndsEachItemOnce ==
    [][AttemptRules]_vars /\ (InTick ~> ~InTick)

\* A tick has written the first item it found and holds the second, the
\* last, for its attempt.
C36_Witness ==
    /\ hist.mode = "retry"
    /\ mpc = "retry_write"
    /\ hist.tried = 2
    /\ Len(hist.at_start) = 2
    /\ retry_item = hist.at_start[2]

\* ===================================================================
\* C37
\* ===================================================================
\* Jobs that are accepted and not yet past their splice.
BeforeSplice == { j \in JobIds : wpc[j] \in {"sleep", "list", "sort", "write_list", "ffmpeg"} }

\* The cleanup of a finished job runs.
JobCleansUp(j) == wpc[j] = "finally2" /\ wpc'[j] # "finally2"

\* The segments a step deletes.
Deleted == segments \ segments'

\* C37: the cleanup a finished job runs after it has released the lock
\* deletes no segment inside the selection window of a job that is active
\* then, whatever pre_seconds, post_seconds and buffer_seconds are.
C37_CleanupSparesActiveWindow ==
    [][ \A j \in JobIds : JobCleansUp(j) =>
          \A k \in BeforeSplice : \A mt \in Deleted : ~InWindow(mt, event_ts[k]) ]_vars

\* The same for the active jobs whose window, at the time of the cleanup,
\* reaches back no further than the retention.
C37_SparesWindowWithinRetention ==
    [][ \A j \in JobIds : JobCleansUp(j) =>
          \A k \in BeforeSplice :
              now - event_ts[k] + video_config.pre + GRACE <= KeepSeconds(video_config.buffer) =>
                  \A mt \in Deleted : ~InWindow(mt, event_ts[k]) ]_vars

\* ===================================================================
\* C38
\* ===================================================================
\* Modification times a segment may bear.
SegmentTimes == (0 - History)..MaxTime

\* Segment mt is in the buffer directory and older than the retention.
PastRetention(mt) ==
    mt \in segments /\ now - mt > KeepSeconds(video_config.buffer)

\* C38: while the recorder runs, every segment older than
\* max(10, 2 * buffer_seconds) is deleted in the end, with or without
\* NoiseEvents, so that the buffer directory stays bounded.
C38_OldSegmentsGo ==
    \A mt \in SegmentTimes :
        (alive # {} /\ PastRetention(mt)) ~> (mt \notin segments)

\* ===================================================================
\* C39
\* ===================================================================
\* Worker j leaves its try block: the job is over, by whatever exit path.
JobEnds(j) == wpc[j] \in TryStates /\ wpc'[j] \notin TryStates

\* C39: when a recording job reaches a terminal state, by whatever exit path
\* (success, no segments, splice failure, any other exception),
\* concat_list.txt does not exist.
C39_ListFileGoneAtJobEnd ==
    [][ \A j \in JobIds : JobEnds(j) => list_file' = <<>> ]_vars

\* The same for the jobs whose ffmpeg run exited with status 0, when no
\* earlier job has left the file behind.
C39_ListFileGoneAfterSplice ==
    [][ \A j \in JobIds :
          JobEnds(j) /\ outcome'[j] \notin {"splice_failed", "other"} /\ list_file = <<>>
              => list_file' = <<>> ]_vars

\* ===================================================================
\* C40
\* ===================================================================
\* main has set the stop signal and stop_video_buffer has returned.
ShutdownBegun == stop_event /\ mpc = "join"

\* The sampling thread finds a noise event in this step.
EventStep == ThresholdStep /\ NoiseEvent

\* trigger_event_recording accepts a job from the sampling thread in this step.
AcceptStep == SpawnStep(SAMPLER) /\ tret'[SAMPLER]

\* C40 as stated: once shutdown has begun (stop signal set, segment buffer
\* stopped), the sampling thread emits no NoiseEvent and no job is accepted,
\* whatever the interleaving with an iteration in progress.
C40_NothingAfterShutdown ==
    [][ ShutdownBegun => ~EventStep /\ ~AcceptStep ]_vars

\* C40: once the stop signal is set, the sampling thread ends at its next
\* loop test: it finishes at most the iteration in progress, so at most one
\* NoiseEvent is emitted and at most one job accepted after the signal.
C40_OnlyIterationInProgress ==
    [][ /\ stop_event => stop_event'
        /\ (stop_event /\ spc = "loop" /\ spc' # "loop") => spc' = "done"
        /\ spc = "done" => spc' = "done"
        /\ hist'.late_events <= 1
        /\ hist'.late_jobs <= 1 ]_vars

\* The sampling thread has ended after an event and a job accepted with the
\* stop signal set and the segment buffer stopped.
C40_Witness ==
    /\ hist.mode = "shutdown"
    /\ hist.late_events = 1
    /\ hist.late_jobs = 1
    /\ spc = "done"
    /\ _proc = 0
    /\ mpc = "join"
====
